---- MODULE Spec2Model ----
(***************************************************************************)
(* A model of pytato's graph-transformation framework                       *)
(* (src/pytato/transform.py) and of its lowering pass                       *)
(* (src/pytato/codegen.py).                                                 *)
(*                                                                          *)
(* An expression graph is a sequence of node records; node i may only refer *)
(* to nodes j < i, so every graph is acyclic.  Copies made by CopyMapper    *)
(* are appended to the same heap, so that object identity (the position in  *)
(* the heap) and structural equality (SameStructure) are two relations.     *)
(***************************************************************************)
EXTENDS Integers, Sequences, FiniteSets, TLC

VARIABLES
    g,      \* the input expression graph (heap of node records)
    outs,   \* the named outputs: a sequence of roots (output k is named k)
    pc,     \* position of the running front end
    cm,     \* CopyMapper instance and the copied dictionary
    dm,     \* DependencyMapper instance and the dictionary it returns
    wm,     \* WalkMapper instance: the hooks' call log
    rc,     \* a single Mapper.rec dispatch and its outcome
    cg      \* generate_loopy: the CodeGenState and the call's bookkeeping

vars == <<g, outs, pc, cm, dm, wm, rc, cg>>

\* ------------------------------------------------------------------ bounds

MaxNodes == 3

\* The reductions one Inlined result carries, and the Inlined results one
\* expression context takes in.
MaxReds == 2

MaxInlines == 2

\* The largest value a domain's parameter is bound to.
MaxParam == 3

\* ------------------------------------------------------------- data model

LeafKinds == {"Placeholder", "DataWrapper", "SizeParam"}

ShapedLeafKinds == {"Placeholder", "DataWrapper"}

UnaryKinds == {"Roll", "AxisPermutation", "Slice", "Reshape",
               "DistributedSend", "DistributedRecv"}

NaryKinds == {"Stack", "Concatenate"}

ArrayKinds == LeafKinds \cup UnaryKinds \cup NaryKinds
                \cup {"IndexLambda", "MatrixProduct"}

\* A value that is no pytato.Array at all (it has no _mapper_method).
Foreign == 0

\* The number of arrays of a Stack/Concatenate, of bindings of an IndexLambda.
Arities == {1, 2}

IntDim == 0

NoErr == [type |-> "none"]

Idle == "idle"

\* The earlier nodes a new node may refer to: the two built last.
Near(h) == {j \in 1..Len(h) : j + 2 > Len(h)}

\* Shapes a node that owns a shape may have over the earlier nodes: one
\* integer dimension, or one dimension that refers to a SizeParam node.
ShapesOver(h) ==
    {<<IntDim>>} \cup {<<j>> : j \in {i \in Near(h) : h[i].kind = "SizeParam"}}

KidSeqs(S, lens) == UNION {[1..m -> S] : m \in lens}

Node(kind, name, kids, shape) ==
    [kind |-> kind, name |-> name, kids |-> kids, shape |-> shape]

\* The nodes of the kinds in K that can be put on top of heap h.  Leaves
\* carry a name of their own; the other kinds are determined by their fields.
NodesOver(h, K) ==
    LET p == Len(h) IN
    {Node(k, p + 1, <<>>, <<>>) : k \in K \cap {"SizeParam"}}
    \cup {Node(k, p + 1, <<>>, s) : k \in K \cap ShapedLeafKinds, s \in ShapesOver(h)}
    \cup {Node(k, 0, <<c>>, <<>>) : k \in K \cap UnaryKinds, c \in Near(h)}
    \cup {Node(k, 0, ks, <<>>) : k \in K \cap {"MatrixProduct"},
                                  ks \in KidSeqs(Near(h), {2})}
    \cup {Node(k, 0, ks, <<>>) : k \in K \cap NaryKinds,
                                  ks \in KidSeqs(Near(h), Arities)}
    \cup {Node(k, 0, ks, s) : k \in K \cap {"IndexLambda"},
                               ks \in KidSeqs(Near(h), Arities), s \in ShapesOver(h)}

\* The graph-construction API: one more node on top of a graph of fewer than
\* n nodes.
AddNode(K, n) ==
    /\ pc = "build" /\ Len(g) < n
    /\ \E nd \in NodesOver(g, K) :
          /\ \A i \in 1..Len(g) : g[i] # nd
          /\ g' = Append(g, nd)
    /\ UNCHANGED <<outs, pc, cm, dm, wm, rc, cg>>

BuildInit ==
    /\ g = <<>> /\ outs = <<>> /\ pc = "build"
    /\ cm = Idle /\ dm = Idle /\ wm = Idle /\ rc = Idle /\ cg = Idle

\* Named-outputs sets over a graph of n nodes: the top node, alone or with
\* the node before it.
RootSeqs(n) == {<<n>>} \cup {<<n, j>> : j \in {n - 1} \ {0}}

IsArray(h, v) == v \in 1..Len(h)

\* The edges a traversal follows out of a node: its child nodes in order,
\* then its node-valued shape components in order.
NodeDims(nd) == SelectSeq(nd.shape, LAMBDA s : s # IntDim)

Edges(nd) == nd.kids \o NodeDims(nd)

Range(s) == {s[i] : i \in 1..Len(s)}

RECURSIVE Reach(_, _)
Reach(h, v) == {v} \cup UNION {Reach(h, c) : c \in Range(Edges(h[v]))}

\* Structural equality of two heap nodes (pytato.Array.__eq__).
RECURSIVE SameStructure(_, _, _)
SameStructure(h, a, b) ==
    \/ a = b
    \/ /\ a # IntDim /\ b # IntDim
       /\ h[a].kind = h[b].kind
       /\ h[a].name = h[b].name
       /\ Len(h[a].kids) = Len(h[b].kids)
       /\ Len(h[a].shape) = Len(h[b].shape)
       /\ \A i \in 1..Len(h[a].kids) : SameStructure(h, h[a].kids[i], h[b].kids[i])
       /\ \A i \in 1..Len(h[a].shape) : SameStructure(h, h[a].shape[i], h[b].shape[i])

\* ------------------------------------------------------- generic dispatcher

\* The map_ methods each mapper class defines.
HandledKinds(mapper) ==
    CASE mapper = "Mapper" -> {}
      [] mapper = "CopyMapper" ->
            {"IndexLambda", "Placeholder", "MatrixProduct", "Stack", "Roll",
             "AxisPermutation", "Slice", "DataWrapper", "SizeParam",
             "DistributedSend"}
      [] mapper = "DependencyMapper" ->
            {"IndexLambda", "Placeholder", "DataWrapper", "SizeParam",
             "MatrixProduct", "Stack", "Roll", "AxisPermutation", "Slice",
             "Reshape", "Concatenate"}
      [] mapper = "WalkMapper" -> ArrayKinds
      [] mapper = "CodeGenMapper" ->
            {"SizeParam", "Placeholder", "DataWrapper", "MatrixProduct", "Stack",
             "Roll", "AxisPermutation", "Slice", "IndexLambda"}

UnsupportedArrayError(mapper, kind) ==
    [type |-> "UnsupportedArrayError", mapper |-> mapper, kind |-> kind]

ForeignError(mapper) ==
    [type |-> "ValueError", mapper |-> mapper, kind |-> "foreign"]

\* Mapper.rec up to the call of the method: the method found by getattr, or
\* the error raised by handle_unsupported_array / map_foreign.
DispatchWrong(mapper, h, v) ==
    IF IsArray(h, v) /\ h[v].kind \in HandledKinds(mapper)
    THEN [how |-> "method", err |-> NoErr]
    ELSE IF IsArray(h, v)
    THEN [how |-> "raise", err |-> ForeignError(mapper)]
    ELSE [how |-> "raise", err |-> UnsupportedArrayError(mapper, "foreign")]

Dispatch(mapper, h, v) ==
    IF IsArray(h, v) /\ h[v].kind \in HandledKinds(mapper)
    THEN [how |-> "method", err |-> NoErr]
    ELSE IF IsArray(h, v)
    THEN [how |-> "raise", err |-> UnsupportedArrayError(mapper, h[v].kind)]
    ELSE [how |-> "raise", err |-> ForeignError(mapper)]

\* --------------------------------------------------------------- CopyMapper

\* CopyMapper.__init__: an empty cache.  heap holds the input graph and every
\* node built so far; built counts the constructor calls per input node.
NewCopyMapper(h) ==
    [heap |-> h, cache |-> <<>>, built |-> [i \in 1..Len(h) |-> 0],
     ret |-> Foreign, err |-> NoErr]

Alloc(st, v, nd) ==
    [st EXCEPT !.heap = Append(@, nd), !.ret = Len(st.heap) + 1,
               !.built = IF v \in DOMAIN @ THEN [@ EXCEPT ![v] = @ + 1] ELSE @]

RECURSIVE CopyRec(_, _), CopyEach(_, _), CopyShape(_, _)

\* tuple(self.rec(a) for a in vs)
CopyEach(st, vs) ==
    IF vs = <<>> \/ st.err # NoErr THEN [st |-> st, rs |-> <<>>]
    ELSE LET a == CopyRec(st, Head(vs))
             b == CopyEach(a, Tail(vs))
         IN  [st |-> b.st, rs |-> <<a.ret>> \o b.rs]

\* tuple(self.rec(s) if isinstance(s, Array) else s for s in expr.shape)
CopyShape(st, ss) ==
    IF ss = <<>> \/ st.err # NoErr THEN [st |-> st, rs |-> <<>>]
    ELSE IF Head(ss) = IntDim
    THEN LET b == CopyShape(st, Tail(ss))
         IN  [st |-> b.st, rs |-> <<IntDim>> \o b.rs]
    ELSE LET a == CopyRec(st, Head(ss))
             b == CopyShape(a, Tail(ss))
         IN  [st |-> b.st, rs |-> <<a.ret>> \o b.rs]

\* The map_ methods of CopyMapper.
CopyMethod(st, v) ==
    LET nd == st.heap[v] IN
    IF nd.kind = "DistributedSend"
    THEN Alloc(st, v, Node(nd.kind, nd.name, nd.kids, nd.shape))
    ELSE LET ks == CopyEach(st, nd.kids)
             sh == CopyShape(ks.st, nd.shape)
         IN  IF sh.st.err # NoErr THEN sh.st
             ELSE Alloc(sh.st, v, Node(nd.kind, nd.name, ks.rs, sh.rs))

\* The keys of the cache equal to v (dict lookup is by __hash__ and __eq__).
CacheKeys(st, v) == {k \in DOMAIN st.cache : SameStructure(st.heap, k, v)}

\* CopyMapper.rec
CopyRec(st, v) ==
    IF st.err # NoErr THEN st
    ELSE IF IsArray(st.heap, v) /\ CacheKeys(st, v) # {}
    THEN [st EXCEPT !.ret = st.cache[CHOOSE k \in CacheKeys(st, v) : TRUE]]
    ELSE LET d == Dispatch("CopyMapper", st.heap, v) IN
         IF d.how = "raise" THEN [st EXCEPT !.err = d.err]
         ELSE LET r == CopyMethod(st, v) IN
              IF r.err # NoErr THEN r
              ELSE [r EXCEPT !.cache = (v :> r.ret) @@ @]

\* copy_dict_of_named_arrays(source_dict, CopyMapper()), one item of the dict
\* comprehension per step.
CopyStart ==
    /\ pc = "build" /\ g # <<>>
    /\ \E r \in RootSeqs(Len(g)) \cup {<<>>} : outs' = r
    /\ pc' = "copy"
    /\ cm' = [m |-> NewCopyMapper(g), data |-> <<>>, again |-> <<>>]
    /\ UNCHANGED <<g, dm, wm, rc, cg>>

\* if not source_dict: return DictOfNamedArrays({})
CopyEmpty ==
    /\ pc = "copy" /\ outs = <<>>
    /\ pc' = "done"
    /\ UNCHANGED <<g, outs, cm, dm, wm, rc, cg>>

CopyItem ==
    /\ pc = "copy" /\ Len(cm.data) < Len(outs)
    /\ LET r == CopyRec(cm.m, outs[Len(cm.data) + 1]) IN
       IF r.err # NoErr
       THEN /\ pc' = "failed"
            /\ cm' = [cm EXCEPT !.m = r]
       ELSE /\ pc' = IF Len(cm.data) + 1 = Len(outs) THEN "copied" ELSE "copy"
            /\ cm' = [cm EXCEPT !.m = r, !.data = Append(@, r.ret)]
    /\ UNCHANGED <<g, outs, dm, wm, rc, cg>>

\* The copy is copied once more, by a CopyMapper of its own.
CopyAgain ==
    /\ pc = "copied"
    /\ LET m2 == [NewCopyMapper(cm.m.heap) EXCEPT !.built = cm.m.built]
           r  == CopyEach(m2, cm.data)
       IN  /\ pc' = IF r.st.err # NoErr THEN "failed" ELSE "done"
           /\ cm' = [cm EXCEPT !.m = r.st, !.again = r.rs]
    /\ UNCHANGED <<g, outs, dm, wm, rc, cg>>

CopyNext == AddNode(ArrayKinds, MaxNodes) \/ CopyStart \/ CopyEmpty \/ CopyItem \/ CopyAgain

SpecCopy == BuildInit /\ [][CopyNext]_vars

\* The nodes of the input dictionary and of the copied dictionary.
InputNodes == UNION {Reach(g, outs[k]) : k \in 1..Len(outs)}

CopiedNodes == UNION {Reach(cm.m.heap, cm.data[k]) : k \in 1..Len(cm.data)}

\* C4: for every node kind of the data model, applying CopyMapper to a graph
\* rooted at such a node succeeds and returns a graph structurally equal to
\* the original, and copying the copy again returns a graph equal to the
\* first copy.
C4_CopyFidelity ==
    /\ pc # "failed"
    /\ pc \in {"copy", "copied", "done"} =>
          \A k \in 1..Len(cm.data) : SameStructure(cm.m.heap, outs[k], cm.data[k])
    /\ pc = "done" =>
          \A k \in 1..Len(cm.again) :
              SameStructure(cm.m.heap, cm.data[k], cm.again[k])

\* C5: within one CopyMapper instance each input node is rebuilt at most
\* once, two parents that share a child in the input share the very same
\* copied child in the output, and the output has no more distinct nodes than
\* the input.
C5_CopySharing ==
    pc = "copied" =>
        /\ \A i \in 1..Len(g) : cm.m.built[i] <= 1
        /\ \A a, b \in InputNodes \cap DOMAIN cm.m.cache :
              \A i \in 1..Len(g[a].kids), j \in 1..Len(g[b].kids) :
                  g[a].kids[i] = g[b].kids[j] =>
                      cm.m.heap[cm.m.cache[a]].kids[i] = cm.m.heap[cm.m.cache[b]].kids[j]
        /\ Cardinality(CopiedNodes) <= Cardinality(InputNodes)

\* --------------------------------------------------------- DependencyMapper

\* DependencyMapper.__init__
NewDependencyMapper == [cache |-> <<>>, ret |-> {}, err |-> NoErr]

\* DependencyMapper.combine: reduce(lambda a, b: a | b, args, frozenset())
CombineLosesFirst(args) ==
    UNION {args[i] : i \in 2..Len(args)}

Combine(args) ==
    UNION {args[i] : i \in 1..Len(args)}

\* The sub-nodes each map_ method of DependencyMapper recurses into.
DepArgsKidsOnly(nd) == nd.kids

DepArgs(nd) ==
    IF nd.kind \in {"IndexLambda", "Placeholder", "DataWrapper"}
    THEN nd.kids \o NodeDims(nd)
    ELSE IF nd.kind = "SizeParam" THEN <<>>
    ELSE nd.kids

RECURSIVE DepRec(_, _), DepEach(_, _)

\* (self.rec(a) for a in vs)
DepEach(st, vs) ==
    IF vs = <<>> \/ st.err # NoErr THEN [st |-> st, rs |-> <<>>]
    ELSE LET a == DepRec(st, Head(vs))
             b == DepEach(a, Tail(vs))
         IN  [st |-> b.st, rs |-> <<a.ret>> \o b.rs]

\* The map_ methods of DependencyMapper.
DepMethod(st, v) ==
    IF g[v].kind = "SizeParam" THEN [st EXCEPT !.ret = {v}]
    ELSE LET r == DepEach(st, DepArgs(g[v])) IN
         IF r.st.err # NoErr THEN r.st
         ELSE [r.st EXCEPT !.ret = Combine(<<{v}>> \o r.rs)]

\* DependencyMapper.rec
DepRec(st, v) ==
    IF st.err # NoErr THEN st
    ELSE IF v \in DOMAIN st.cache THEN [st EXCEPT !.ret = st.cache[v]]
    ELSE LET d == Dispatch("DependencyMapper", g, v) IN
         IF d.how = "raise" THEN [st EXCEPT !.err = d.err]
         ELSE LET r == DepMethod(st, v) IN
              IF r.err # NoErr THEN r
              ELSE [r EXCEPT !.cache = (v :> r.ret) @@ @]

\* get_dependencies(expr), one item of the dict comprehension per step.
DepStart ==
    /\ pc = "build" /\ g # <<>>
    /\ \E r \in RootSeqs(Len(g)) : outs' = r
    /\ pc' = "deps"
    /\ dm' = [m |-> NewDependencyMapper, data |-> <<>>]
    /\ UNCHANGED <<g, cm, wm, rc, cg>>

DepItem ==
    /\ pc = "deps" /\ Len(dm.data) < Len(outs)
    /\ LET r == DepRec(dm.m, outs[Len(dm.data) + 1]) IN
       IF r.err # NoErr
       THEN /\ pc' = "failed"
            /\ dm' = [dm EXCEPT !.m = r]
       ELSE /\ pc' = IF Len(dm.data) + 1 = Len(outs) THEN "done" ELSE "deps"
            /\ dm' = [dm EXCEPT !.m = r, !.data = Append(@, r.ret)]
    /\ UNCHANGED <<g, outs, cm, wm, rc, cg>>

DepNext == AddNode(ArrayKinds, MaxNodes) \/ DepStart \/ DepItem

SpecDeps == BuildInit /\ [][DepNext]_vars

\* C6: for every named output, the set returned by get_dependencies contains
\* the output's root node, contains with every node each of its child nodes
\* and each of its node-valued shape components, and contains no node that is
\* not reachable from the root through such edges.
C6_DependencyClosure ==
    pc = "done" =>
        \A k \in 1..Len(outs) :
            /\ outs[k] \in dm.data[k]
            /\ \A n \in dm.data[k] :
                  /\ Range(g[n].kids) \subseteq dm.data[k]
                  /\ Range(NodeDims(g[n])) \subseteq dm.data[k]
            /\ dm.data[k] \subseteq Reach(g, outs[k])

\* get_dependencies has returned a set that holds a child and a node-valued
\* shape component besides the root.
C6_Witness ==
    /\ pc = "done"
    /\ \E k \in 1..Len(outs) :
          /\ Cardinality(dm.data[k]) = 3
          /\ g[outs[k]].kids # <<>>
          /\ \E n \in dm.data[k] : NodeDims(g[n]) # <<>>

\* C7 as claimed: every leaf input node maps to the singleton of that node,
\* every other node to the union of {node} with the results of its children.
C7_LeafSingleton ==
    pc \in {"deps", "done"} =>
        \A n \in DOMAIN dm.m.cache :
            IF g[n].kind \in LeafKinds
            THEN dm.m.cache[n] = {n}
            ELSE dm.m.cache[n] =
                    {n} \cup UNION {dm.m.cache[c] : c \in Range(g[n].kids)}

\* C7 as amended: every node maps to the union of {node} with the results of
\* its children and of its node-valued shape components; a node with neither
\* (every SizeParam) maps to the singleton of that node.
C7_MapsToUnion ==
    pc \in {"deps", "done"} =>
        \A n \in DOMAIN dm.m.cache :
            /\ Range(Edges(g[n])) \subseteq DOMAIN dm.m.cache
            /\ dm.m.cache[n] =
                  {n} \cup UNION {dm.m.cache[c] : c \in Range(Edges(g[n]))}
            /\ Edges(g[n]) = <<>> => dm.m.cache[n] = {n}

\* The mapper has mapped a non-leaf node with two children and a leaf with a
\* node-valued shape component.
C7_Witness ==
    /\ pc = "done"
    /\ \E n \in DOMAIN dm.m.cache : Len(g[n].kids) = 2 /\ g[n].kind # "IndexLambda"
    /\ \E n \in DOMAIN dm.m.cache : g[n].kind \in LeafKinds /\ NodeDims(g[n]) # <<>>

\* --------------------------------------------------------------- WalkMapper

\* One kind per map_ method of WalkMapper: map_data_wrapper and
\* map_size_param are map_placeholder itself, map_axis_permutation, map_slice
\* and map_reshape are _map_index_remapping_base itself, and map_concatenate
\* is map_stack itself.
WalkKinds == {"IndexLambda", "Placeholder", "SizeParam", "MatrixProduct",
              "Roll", "Stack", "DistributedSend", "DistributedRecv"}

\* The extra arguments a walk may be started with.
WalkArgs == {<<>>, <<"seen">>}

Event(ev, v, depth, args, ret) ==
    [ev |-> ev, node |-> v, depth |-> depth, args |-> args, ret |-> ret]

\* WalkMapper.visit as overridden by the caller: the walk is told not to
\* traverse the nodes of st.prune (the default visit has st.prune = {}).
Visit(st, v) == v \notin st.prune

\* The hook calls of one map_ method: visit gets the extra arguments, except
\* in map_matrix_product, which calls self.visit(expr).
VisitArgs(nd, args) == IF nd.kind = "MatrixProduct" THEN <<>> ELSE args

\* The sub-nodes each map_ method of WalkMapper recurses into, in order.
WalkIntoKidsOnly(nd) == nd.kids

WalkInto(nd) ==
    IF nd.kind \in {"IndexLambda", "Placeholder", "DataWrapper", "SizeParam"}
    THEN nd.kids \o NodeDims(nd)
    ELSE nd.kids

RECURSIVE WalkRec(_, _, _, _), WalkEach(_, _, _, _)

\* for child in ...: self.rec(child, *args)
WalkEach(st, vs, args, depth) ==
    IF vs = <<>> \/ st.err # NoErr THEN st
    ELSE WalkEach(WalkRec(st, Head(vs), args, depth), Tail(vs), args, depth)

\* The body of a map_ method after a visit that returned r.
WalkBodyIgnoresVisit(st, v, args, depth, r) ==
    LET s2 == WalkEach(st, WalkInto(g[v]), args, depth + 1) IN
    IF s2.err # NoErr THEN s2
    ELSE [s2 EXCEPT !.log = Append(@, Event("post_visit", v, depth, args, TRUE))]

WalkBody(st, v, args, depth, r) ==
    IF ~r THEN st
    ELSE LET s2 == WalkEach(st, WalkInto(g[v]), args, depth + 1) IN
         IF s2.err # NoErr THEN s2
         ELSE [s2 EXCEPT !.log = Append(@, Event("post_visit", v, depth, args, TRUE))]

\* Mapper.rec, and the map_ methods of WalkMapper.
WalkRec(st, v, args, depth) ==
    IF st.err # NoErr THEN st
    ELSE LET d == Dispatch("WalkMapper", g, v) IN
         IF d.how = "raise" THEN [st EXCEPT !.err = d.err]
         ELSE LET r  == Visit(st, v)
                  s1 == [st EXCEPT !.log = Append(@,
                            Event("visit", v, depth, VisitArgs(g[v], args), r))]
              IN  WalkBody(s1, v, args, depth, r)

\* WalkMapper()(expr, *args) on the top node of the graph.
WalkStart ==
    /\ pc = "build" /\ g # <<>>
    /\ outs' = <<Len(g)>>
    /\ \E prune \in {{}} \cup {{n} : n \in 1..Len(g)}, args \in WalkArgs :
          wm' = [prune |-> prune, args |-> args, log |-> <<>>, err |-> NoErr]
    /\ pc' = "walk"
    /\ UNCHANGED <<g, cm, dm, rc, cg>>

Walk ==
    /\ pc = "walk"
    /\ wm' = WalkRec(wm, outs[1], wm.args, 0)
    /\ pc' = "done"
    /\ UNCHANGED <<g, outs, cm, dm, rc, cg>>

WalkNext == AddNode(WalkKinds, MaxNodes) \/ WalkStart \/ Walk

SpecWalk == BuildInit /\ [][WalkNext]_vars

\* The first event after log position i that is not deeper than position i
\* (Len + 1 when there is none): where the call that logged i ends.
CallEnd(log, i) ==
    LET later == {j \in (i + 1)..Len(log) : log[j].depth <= log[i].depth}
    IN  IF later = {} THEN Len(log) + 1
        ELSE CHOOSE j \in later : \A k \in later : j <= k

\* The nodes visited directly from the call that logged position i, in order.
VisitedFrom(log, i) ==
    LET idx == {j \in (i + 1)..(CallEnd(log, i) - 1) :
                    log[j].ev = "visit" /\ log[j].depth = log[i].depth + 1}
        F[k \in 0..Len(log)] ==
            IF k = 0 THEN <<>>
            ELSE IF k \in idx THEN Append(F[k - 1], log[k].node) ELSE F[k - 1]
    IN  F[Len(log)]

IsPostOf(log, j, i) ==
    /\ j \in 1..Len(log)
    /\ log[j].ev = "post_visit"
    /\ log[j].node = log[i].node
    /\ log[j].depth = log[i].depth

\* C8: when visit returns false on a node, no descendant of that node is
\* visited through it and post_visit is not called for that node, while every
\* sibling (the other children of the same parent) is still visited in full
\* and the parent's post_visit is still called.
C8_PrunedWalk ==
    pc = "done" =>
        \A i \in 1..Len(wm.log) :
            wm.log[i].ev = "visit" =>
                IF wm.log[i].ret
                THEN /\ VisitedFrom(wm.log, i) = Edges(g[wm.log[i].node])
                     /\ IsPostOf(wm.log, CallEnd(wm.log, i), i)
                ELSE /\ CallEnd(wm.log, i) = i + 1
                     /\ ~IsPostOf(wm.log, i + 1, i)

\* A walk in which visit returned false on a node that has children, and a
\* later sibling of that node was traversed.
C8_Witness ==
    /\ pc = "done"
    /\ \E i, j \in 1..Len(wm.log) :
          /\ wm.log[i].ev = "visit" /\ ~wm.log[i].ret
          /\ g[wm.log[i].node].kids # <<>>
          /\ wm.log[j].ev = "visit" /\ wm.log[j].ret
          /\ wm.log[j].depth = wm.log[i].depth /\ j > i

\* The number of paths from node a down to node b along child and
\* node-valued-shape edges.
RECURSIVE Paths(_, _)
Paths(a, b) ==
    IF a = b THEN 1
    ELSE LET e == Edges(g[a])
             F[k \in 0..Len(e)] == IF k = 0 THEN 0 ELSE F[k - 1] + Paths(e[k], b)
         IN  F[Len(e)]

Count(log, ev, v) ==
    Cardinality({i \in 1..Len(log) : log[i].ev = ev /\ log[i].node = v})

Mappers == {"Mapper", "CopyMapper", "DependencyMapper", "WalkMapper"}

NewWalkMapper == [prune |-> {}, args |-> <<>>, log |-> <<>>, err |-> NoErr]

Outcome(ret, err) == [ret |-> ret, err |-> err]

\* What mapper.rec(v) returns or raises, for a new instance of each class.
RecOutcome(mapper, v) ==
    CASE mapper = "Mapper" ->
            Outcome("none", Dispatch(mapper, g, v).err)
      [] mapper = "CopyMapper" ->
            LET r == CopyRec(NewCopyMapper(g), v)
            IN  Outcome(IF r.err = NoErr THEN r.heap[r.ret] ELSE "none", r.err)
      [] mapper = "DependencyMapper" ->
            LET r == DepRec(NewDependencyMapper, v) IN Outcome(r.ret, r.err)
      [] mapper = "WalkMapper" ->
            LET r == WalkRec(NewWalkMapper, v, <<>>, 0) IN Outcome(r.log, r.err)

\* What the map_ method the class has for v returns or raises, called directly.
MethodOutcome(mapper, v) ==
    CASE mapper = "CopyMapper" ->
            LET r == CopyMethod(NewCopyMapper(g), v)
            IN  Outcome(IF r.err = NoErr THEN r.heap[r.ret] ELSE "none", r.err)
      [] mapper = "DependencyMapper" ->
            LET r == DepMethod(NewDependencyMapper, v) IN Outcome(r.ret, r.err)
      [] mapper = "WalkMapper" ->
            LET st == NewWalkMapper
                s1 == [st EXCEPT !.log = Append(@,
                          Event("visit", v, 0, VisitArgs(g[v], <<>>), Visit(st, v)))]
                r  == WalkBody(s1, v, <<>>, 0, Visit(st, v))
            IN  Outcome(r.log, r.err)

\* mapper.rec(v) for a mapper of any class and any value v.
RecStart ==
    /\ pc = "build" /\ g # <<>>
    /\ \E mapper \in Mappers, v \in {Len(g), Foreign} :
          rc' = [mapper |-> mapper, v |-> v, out |-> Outcome("none", NoErr)]
    /\ pc' = "rec"
    /\ UNCHANGED <<g, outs, cm, dm, wm, cg>>

RecCall ==
    /\ pc = "rec"
    /\ rc' = [rc EXCEPT !.out = RecOutcome(rc.mapper, rc.v)]
    /\ pc' = "done"
    /\ UNCHANGED <<g, outs, cm, dm, wm, cg>>

RecNext == AddNode(ArrayKinds, MaxNodes - 1) \/ RecStart \/ RecCall

SpecRec == BuildInit /\ [][RecNext]_vars

\* C10: Mapper.rec on a value for which the mapper has no handler fails with
\* the unsupported-kind error, naming the mapper and the kind, when the value
\* is an expression-graph node, and with the distinct foreign-object error
\* when the value is no graph node at all; when a handler exists, rec returns
\* or raises exactly what that handler does, and raises neither of the two
\* errors for the value itself.
C10_Dispatch ==
    pc = "done" =>
        IF rc.v = Foreign
        THEN /\ rc.out.err.type = "ValueError"
             /\ rc.out.err.mapper = rc.mapper
             /\ rc.out.err.kind = "foreign"
        ELSE IF g[rc.v].kind \notin HandledKinds(rc.mapper)
        THEN /\ rc.out.err.type = "UnsupportedArrayError"
             /\ rc.out.err.mapper = rc.mapper
             /\ rc.out.err.kind = g[rc.v].kind
        ELSE /\ rc.out = MethodOutcome(rc.mapper, rc.v)
             /\ rc.out.err # ForeignError(rc.mapper)
             /\ rc.out.err # UnsupportedArrayError(rc.mapper, g[rc.v].kind)

\* rec has failed with the unsupported-kind error on a graph node for which
\* the mapper has no handler.
C10_Witness ==
    /\ pc = "done" /\ rc.v # Foreign
    /\ rc.out.err = UnsupportedArrayError("CopyMapper", "Reshape")

\* ------------------------------------------------------- scalar expressions

\* pymbolic expressions: a number, a Variable, a Subscript of a Variable, an
\* arithmetic node, and loopy's Reduction.
Num(v) == [t |-> "num", v |-> v]

Var(name) == [t |-> "var", name |-> name]

Sub(name, index) == [t |-> "sub", name |-> name, index |-> index]

Op(op, args) == [t |-> "op", op |-> op, args |-> args]

Red(inames, body) == [t |-> "red", inames |-> inames, body |-> body]

\* scalar_expr.get_dependencies: the names of the variables of an expression.
RECURSIVE FreeVars(_)
FreeVars(e) ==
    CASE e.t = "num" -> {}
      [] e.t = "var" -> {e.name}
      [] e.t = "sub" -> {e.name} \cup UNION {FreeVars(e.index[i]) : i \in 1..Len(e.index)}
      [] e.t = "op"  -> UNION {FreeVars(e.args[i]) : i \in 1..Len(e.args)}
      [] e.t = "red" -> FreeVars(e.body) \ Range(e.inames)

\* The buffers an expression reads: its variables, reduction inames included.
RECURSIVE AllVars(_)
AllVars(e) ==
    CASE e.t = "num" -> {}
      [] e.t = "var" -> {e.name}
      [] e.t = "sub" -> {e.name} \cup UNION {AllVars(e.index[i]) : i \in 1..Len(e.index)}
      [] e.t = "op"  -> UNION {AllVars(e.args[i]) : i \in 1..Len(e.args)}
      [] e.t = "red" -> AllVars(e.body)

\* scalar_expr.substitute: every variable named in sb is replaced by its
\* image; the inames of a Reduction follow the variables they are mapped to.
RECURSIVE Substitute(_, _)
Substitute(e, sb) ==
    CASE e.t = "num" -> e
      [] e.t = "var" -> IF e.name \in DOMAIN sb THEN sb[e.name] ELSE e
      [] e.t = "sub" ->
            LET idx == [i \in 1..Len(e.index) |-> Substitute(e.index[i], sb)]
                agg == IF e.name \in DOMAIN sb THEN sb[e.name] ELSE Var(e.name)
            IN  IF agg.t = "var" THEN Sub(agg.name, idx)
                ELSE Op("index", <<agg>> \o idx)
      [] e.t = "op"  -> Op(e.op, [i \in 1..Len(e.args) |-> Substitute(e.args[i], sb)])
      [] e.t = "red" ->
            Red([i \in 1..Len(e.inames) |->
                    IF e.inames[i] \in DOMAIN sb /\ sb[e.inames[i]].t = "var"
                    THEN sb[e.inames[i]].name ELSE e.inames[i]],
                Substitute(e.body, sb))

\* f"_{d}" and f"_r{i}"
Positional(d) == "_" \o ToString(d)

\* f"_r{i + 1}"
ReductionNameFromOne(i) == "_r" \o ToString(i + 1)

ReductionName(i) == "_r" \o ToString(i)

\* pytools.UniqueNameGenerator.__call__: based_on itself when it is free,
\* else the first of based_on_0, based_on_1, ... that is.
UniqueName(taken, based_on) ==
    IF based_on \notin taken THEN based_on
    ELSE LET cand(k) == based_on \o "_" \o ToString(k)
             free == {k \in 0..Cardinality(taken) : cand(k) \notin taken}
         IN  cand(CHOOSE k \in free : \A j \in free : k <= j)

\* ---------------------------------------------------- graphs to be lowered

\* In codegen.py a shape component is a scalar expression: a number, or the
\* name of a scalar-valued node of the namespace.  attr holds the fields a
\* kind has besides its children.
CgNode(kind, name, kids, shape, attr) ==
    [kind |-> kind, name |-> name, kids |-> kids, shape |-> shape, attr |-> attr]

NoAttr == <<>>

Ndim(nd) == Len(nd.shape)

\* list.insert at the front, whatever the position asked for.
InsertAtFront(s, k, x) == <<x>> \o s

InsertAt(s, k, x) == SubSeq(s, 1, k) \o <<x>> \o SubSeq(s, k + 1, Len(s))

\* <<_0, ..., _(n-1)>>
PositionalIndices(n) == [d \in 1..n |-> Var(Positional(d - 1))]

\* A reference to the array called name inside an IndexLambda's expression:
\* a bare name for a zero-dimensional array, else a subscript.
Ref(name, n) == IF n = 0 THEN Var(name) ELSE Sub(name, PositionalIndices(n))

CgLeafShapes(h) ==
    {<<Num(2)>>, <<Num(2), Num(2)>>}
    \cup {<<Var(h[j].name)>> : j \in {i \in Near(h) : h[i].kind = "SizeParam"}}

\* An extent less one.
Shrunk(dim) == IF dim.t = "num" THEN Num(dim.v - 1) ELSE Op("-", <<dim, Num(1)>>)

\* The axis orders an AxisPermutation of an n-dimensional array may have:
\* the reversal and the rotation (which is not its own inverse when n > 2).
AxesOf(n) == {[i \in 1..n |-> n - i], [i \in 1..n |-> i % n]}

Arrayish(h) == {c \in Near(h) : Ndim(h[c]) >= 1}

CgNodesOver(h) ==
    LET p == Len(h) IN
    {CgNode("SizeParam", "n" \o ToString(p + 1), <<>>, <<>>, NoAttr)}
    \cup {CgNode("Placeholder", "p" \o ToString(p + 1), <<>>, sh, NoAttr) :
            sh \in CgLeafShapes(h)}
    \cup {CgNode("DataWrapper", "d" \o ToString(p + 1), <<>>, <<Num(2)>>, NoAttr)}
    \cup {CgNode("Roll", "", <<c>>, h[c].shape, [axis |-> ax, shift |-> 1]) :
            c \in Arrayish(h), ax \in {0}}
    \cup UNION {{CgNode("AxisPermutation", "", <<c>>,
                        [i \in 1..Ndim(h[c]) |-> h[c].shape[axes[i] + 1]],
                        [axes |-> axes]) : axes \in AxesOf(Ndim(h[c]))} :
                c \in Arrayish(h)}
    \cup {CgNode("Slice", "", <<c>>,
                 <<Shrunk(h[c].shape[1])>> \o Tail(h[c].shape),
                 [begin |-> [i \in 1..Ndim(h[c]) |-> IF i = 1 THEN 1 ELSE 0]]) :
            c \in Arrayish(h)}
    \cup {CgNode("Reshape", "", <<c>>, h[c].shape, NoAttr) : c \in Arrayish(h)}
    \cup {CgNode("MatrixProduct", "", ks,
                 SubSeq(h[ks[1]].shape, 1, Ndim(h[ks[1]]) - 1) \o Tail(h[ks[2]].shape),
                 NoAttr) :
            ks \in {q \in KidSeqs(Arrayish(h), {2}) :
                        h[q[2]].shape[1] = h[q[1]].shape[Ndim(h[q[1]])]}}
    \cup UNION {{CgNode("Stack", "", ks,
                        InsertAt(h[ks[1]].shape, ax, Num(Len(ks))), [axis |-> ax]) :
                    ax \in {0, Ndim(h[ks[1]])}} :
                ks \in {q \in KidSeqs(Near(h), Arities) :
                            \A i \in 1..Len(q) : h[q[i]].shape = h[q[1]].shape}}
    \cup {CgNode("IndexLambda", "", <<c>>, h[c].shape,
                 [expr |-> Op("*", <<Num(2), Ref("_in0", Ndim(h[c]))>>),
                  bnames |-> <<"_in0">>]) : c \in Near(h)}
    \cup {CgNode("IndexLambda", "", ks, h[ks[1]].shape,
                 [expr |-> Op("+", <<Ref("_in0", Ndim(h[ks[1]])),
                                     Ref("_in1", Ndim(h[ks[1]]))>>),
                  bnames |-> <<"_in0", "_in1">>]) :
            ks \in {q \in KidSeqs(Near(h), {2}) : h[q[2]].shape = h[q[1]].shape}}
    \cup {CgNode("IndexLambda", "", <<>>, h[c].shape,
                 [expr |-> Op("+", <<Num(55), Ref(h[c].name, Ndim(h[c]))>>),
                  bnames |-> <<>>]) :
            c \in {i \in Near(h) : h[i].kind \in LeafKinds}}

\* The namespace: every named node of the graph, in graph order.  A leaf
\* always has a name.
LeafIds(h) == {i \in 1..Len(h) : h[i].kind \in LeafKinds \/ h[i].name # ""}

NamedLeaf(h, name) == CHOOSE i \in LeafIds(h) : h[i].name = name

Namespace(h) == {h[i].name : i \in LeafIds(h)}

\* The names of the namespace's input arguments.
InputNames(h) == {h[i].name : i \in {j \in 1..Len(h) : h[j].kind \in LeafKinds}}

\* The names an expression of node nd resolves in the namespace.
OuterNames(nd) ==
    UNION {FreeVars(nd.shape[i]) : i \in 1..Len(nd.shape)}
    \cup (IF nd.kind = "IndexLambda"
          THEN {x \in FreeVars(nd.attr.expr) :
                    x \notin Range(nd.attr.bnames) /\ x \notin
                        {Positional(d) : d \in 0..Len(nd.shape)}}
          ELSE {})

RECURSIVE CgReach(_, _)
CgReach(h, v) ==
    {v} \cup UNION {CgReach(h, c) : c \in Range(h[v].kids)}
        \cup UNION {CgReach(h, NamedLeaf(h, x)) : x \in OuterNames(h[v]) \cap Namespace(h)}

AddCgNode ==
    /\ pc = "build" /\ Len(g) < MaxNodes
    /\ \E nd \in CgNodesOver(g) :
          /\ \A i \in 1..Len(g) : g[i] # nd
          /\ g' = Append(g, nd)
    /\ UNCHANGED <<outs, pc, cm, dm, wm, rc, cg>>


\* ------------------------------------------------- results and contexts

\* StoredResult.__init__ and InlinedResult.__init__; reds is the dict
\* reduction_bounds in insertion order.
Stored(name, deps) == [t |-> "stored", name |-> name, deps |-> deps]

Inlined(expr, reds, deps) ==
    [t |-> "inlined", expr |-> expr, reds |-> reds, deps |-> deps]

Bound(name, lo, hi) == [name |-> name, lo |-> lo, hi |-> hi]

RedNames(reds) == {reds[i].name : i \in 1..Len(reds)}

\* LoopyExpressionContext(state, local_namespace=local): local maps the
\* names of bindings to nodes.
NewContext(local) == [deps |-> {}, local |-> local, reds |-> <<>>, err |-> NoErr]

\* LoopyExpressionContext.update_depends_on
UpdateDependsOnNot(ctx, other) == ctx

UpdateDependsOn(ctx, other) == [ctx EXCEPT !.deps = @ \cup other]

\* StoredResult.to_loopy_expression
StoredToLoopy(res, indices, ctx) ==
    [ctx  |-> UpdateDependsOn(ctx, res.deps),
     expr |-> IF indices = <<>> THEN Var(res.name) ELSE Sub(res.name, indices)]

\* The loop of InlinedResult.to_loopy_expression over the reductions of
\* the result: reduction k of the context is named _r<k>, and a name that
\* is already in the context fails the assertion.
RECURSIVE AddReductions(_, _, _)
AddReductions(ctx, reds, k) ==
    IF reds = <<>> \/ ctx.err # NoErr THEN ctx
    ELSE IF ReductionName(k) \in RedNames(ctx.reds)
    THEN [ctx EXCEPT !.err = [type |-> "AssertionError",
                              what |-> "reduction name collision"]]
    ELSE AddReductions(
            [ctx EXCEPT !.reds = Append(@, Bound(ReductionName(k), Head(reds).lo,
                                                 Head(reds).hi))],
            Tail(reds), k + 1)

\* The substitutions of InlinedResult.to_loopy_expression: _d becomes
\* indices[d] and reduction i of the result becomes _r<start + i>.
InlinedSubstitutions(res, indices, start) ==
    [x \in {Positional(d - 1) : d \in 1..Len(indices)} \cup RedNames(res.reds) |->
        IF x \in RedNames(res.reds)
        THEN Var(ReductionName(start - 1 +
                    CHOOSE i \in 1..Len(res.reds) : res.reds[i].name = x))
        ELSE indices[CHOOSE d \in 1..Len(indices) : Positional(d - 1) = x]]

\* InlinedResult.to_loopy_expression with reduction_start = 0.
InlinedToLoopyFromZero(res, indices, ctx) ==
    [ctx  |-> UpdateDependsOn(AddReductions(ctx, res.reds, 0), res.deps),
     expr |-> Substitute(res.expr, InlinedSubstitutions(res, indices, 0))]

\* InlinedResult.to_loopy_expression
InlinedToLoopy(res, indices, ctx) ==
    [ctx  |-> UpdateDependsOn(AddReductions(ctx, res.reds, Len(ctx.reds)), res.deps),
     expr |-> Substitute(res.expr, InlinedSubstitutions(res, indices, Len(ctx.reds)))]

\* ImplementedResult.to_loopy_expression
ToLoopy(res, indices, ctx) ==
    IF res.t = "stored" THEN StoredToLoopy(res, indices, ctx)
    ELSE InlinedToLoopy(res, indices, ctx)

\* ------------------------------------------------------------ CodeGenState

\* lp.make_kernel("{:}", []): no argument, temporary, domain or instruction.
EmptyKernel == [args |-> <<>>, temps |-> <<>>, domains |-> <<>>, insns |-> <<>>]

\* CodeGenState(namespace, kernel, results=dict()) with its two name
\* generators; runs counts the executions of each node's rule past the memo
\* check and trace records every return of a rule.
NewCodeGenState(reserved) ==
    [kernel |-> EmptyKernel, results |-> <<>>, names |-> reserved, ids |-> {},
     ret |-> Idle, err |-> NoErr,
     runs |-> [i \in 1..Len(g) |-> 0], writes |-> [i \in 1..Len(g) |-> 0],
     trace |-> <<>>]

Fail(st, type, what) == [st EXCEPT !.err = [type |-> type, what |-> what]]

\* state.var_name_gen(based_on) and state.insn_id_gen(based_on)
VarName(st, based_on) ==
    [st   |-> [st EXCEPT !.names = @ \cup {UniqueName(st.names, based_on)}],
     name |-> UniqueName(st.names, based_on)]

InsnId(st, based_on) ==
    [st   |-> [st EXCEPT !.ids = @ \cup {UniqueName(st.ids, based_on)}],
     name |-> UniqueName(st.ids, based_on)]

\* tuple(state.var_name_gen(b) for b in bases)
RECURSIVE VarNames(_, _, _)
VarNames(st, bases, done) ==
    IF bases = <<>> THEN [st |-> st, names |-> done]
    ELSE VarNames(VarName(st, Head(bases)).st, Tail(bases),
                  Append(done, UniqueName(st.names, Head(bases))))

AsVars(names) == [d \in 1..Len(names) |-> Var(names[d])]

\* state.results[expr] = result; return result
Memoize(st, v, res) ==
    [st EXCEPT !.results = (v :> res) @@ @, !.ret = res,
               !.writes = [@ EXCEPT ![v] = @ + 1]]

\* An exception raised while a context was used aborts the lowering.
Escalate(st, ctx) == IF ctx.err # NoErr THEN [st EXCEPT !.err = ctx.err] ELSE st

Arg(name, cls, shape, out) ==
    [name |-> name, cls |-> cls, shape |-> shape, is_output_only |-> out]

\* make_assignment with the instruction's own id among depends_on.
InsnSelfDependent(id, name, index, expr, within, deps) ==
    [id |-> id, assignee |-> [name |-> name, index |-> index], expr |-> expr,
     within_inames |-> within, depends_on |-> deps \cup {id}]

Insn(id, name, index, expr, within, deps) ==
    [id |-> id, assignee |-> [name |-> name, index |-> index], expr |-> expr,
     within_inames |-> within, depends_on |-> deps]

\* rename_reductions: a new name from var_name_gen for every reduction of the
\* context, in order; the expression and the context follow.
RenameReductions(st, ctx, expr, prefix) ==
    LET renamed(nm) ==
            [st   |-> nm.st,
             ctx  |-> [ctx EXCEPT !.reds =
                          [i \in 1..Len(ctx.reds) |->
                              Bound(nm.names[i], ctx.reds[i].lo, ctx.reds[i].hi)]],
             expr |-> Substitute(expr,
                          [x \in RedNames(ctx.reds) |->
                              Var(nm.names[CHOOSE i \in 1..Len(ctx.reds) :
                                               ctx.reds[i].name = x])])]
    IN  renamed(VarNames(st, [i \in 1..Len(ctx.reds) |-> prefix \o ctx.reds[i].name],
                         <<>>))

\* domain_for_shape with le_set in the place of lt_set.
DomainForShapeClosed(dim_names, shape, reds) ==
    [error |-> Len(dim_names) # Len(shape),
     set_names |-> Range(dim_names) \cup RedNames(reds),
     params |-> UNION {FreeVars(shape[i]) : i \in 1..Len(shape)}
                \cup UNION {FreeVars(reds[i].lo) \cup FreeVars(reds[i].hi) :
                            i \in 1..Len(reds)},
     constraints |->
        {Bound(dim_names[i], Num(0), Op("+", <<shape[i], Num(1)>>)) :
            i \in 1..(IF Len(dim_names) < Len(shape) THEN Len(dim_names) ELSE Len(shape))}
        \cup Range(reds)]

\* domain_for_shape: the set dimensions, the parameters and the constraints
\* lo <= iname < hi.  error holds the failed assertion, if any.
DomainForShape(dim_names, shape, reds) ==
    [error |-> Len(dim_names) # Len(shape),
     set_names |-> Range(dim_names) \cup RedNames(reds),
     params |-> UNION {FreeVars(shape[i]) : i \in 1..Len(shape)}
                \cup UNION {FreeVars(reds[i].lo) \cup FreeVars(reds[i].hi) :
                            i \in 1..Len(reds)},
     constraints |->
        {Bound(dim_names[i], Num(0), shape[i]) :
            i \in 1..(IF Len(dim_names) < Len(shape) THEN Len(dim_names) ELSE Len(shape))}
        \cup Range(reds)]

\* get_loopy_temporary: only a global temporary may have a symbolic shape.
GetLoopyTemporary(name, nd) ==
    [name |-> name, shape |-> nd.shape,
     address_space |-> IF \A i \in 1..Len(nd.shape) : nd.shape[i].t = "num"
                       THEN "auto" ELSE "global"]

\* temporary_variables[name] = tvar on a new dict
SetTemporaryAlone(temps, tvar) == <<tvar>>

\* temporary_variables[name] = tvar on a copy of the kernel's dict
SetTemporary(temps, tvar) ==
    IF \E i \in 1..Len(temps) : temps[i].name = tvar.name
    THEN [i \in 1..Len(temps) |-> IF temps[i].name = tvar.name THEN tvar ELSE temps[i]]
    ELSE Append(temps, tvar)

\* The end of add_store with output_to_temporary ignored: always a temporary.
StoreBufferAlwaysTemporary(k, name, nd, dom, insn, output_to_temporary) ==
    [k EXCEPT !.temps = SetTemporary(@, GetLoopyTemporary(name, nd)),
              !.domains = Append(@, dom),
              !.insns = Append(@, insn)]

\* The end of add_store: the buffer is a temporary, or an output-only global
\* argument; the domain and the instruction are appended.
StoreBuffer(k, name, nd, dom, insn, output_to_temporary) ==
    IF output_to_temporary
    THEN [k EXCEPT !.temps = SetTemporary(@, GetLoopyTemporary(name, nd)),
                   !.domains = Append(@, dom),
                   !.insns = Append(@, insn)]
    ELSE [k EXCEPT !.args = Append(@, Arg(name, "GlobalArg", nd.shape, TRUE)),
                   !.domains = Append(@, dom),
                   !.insns = Append(@, insn)]

\* add_store: the inames name_dim<d>, the expression of the result at them,
\* its reductions renamed, one instruction name[inames] = expression with
\* the id name_store, its domain and its buffer.
AddStore(st, name, v, result, output_to_temporary) ==
    LET stored(inames, rr, id, dom) ==
            IF dom.error
            THEN [st |-> Fail(id.st, "AssertionError", "domain_for_shape"), id |-> Idle]
            ELSE [st |-> [id.st EXCEPT !.kernel =
                            StoreBuffer(@, name, g[v], dom,
                                        Insn(id.name, name, AsVars(inames), rr.expr,
                                             Range(inames), rr.ctx.deps),
                                        output_to_temporary)],
                  id |-> id.name]
        renamed(inames, rr) ==
            stored(inames, rr, InsnId(rr.st, name \o "_store"),
                   DomainForShape(inames, g[v].shape, rr.ctx.reds))
        taken(nm, t) ==
            IF t.ctx.err # NoErr THEN [st |-> Escalate(nm.st, t.ctx), id |-> Idle]
            ELSE renamed(nm.names, RenameReductions(nm.st, t.ctx, t.expr, name))
        named(nm) == taken(nm, ToLoopy(result, AsVars(nm.names), NewContext(<<>>)))
    IN  named(VarNames(st, [d \in 1..Ndim(g[v]) |-> name \o "_dim" \o ToString(d - 1)],
                       <<>>))

\* ------------------------------------------------------------ CodeGenMapper

\* dict.update on the reduction bounds, insertion order kept.
DictUpdate(reds, more) ==
    LET over == [i \in 1..Len(reds) |->
                    IF reds[i].name \in RedNames(more)
                    THEN CHOOSE b \in Range(more) : b.name = reds[i].name
                    ELSE reds[i]]
    IN  over \o SelectSeq(more, LAMBDA b : b.name \notin RedNames(reds))

\* lookup with the global namespace tried first.
LookupOuterFirst(ctx, name) ==
    IF name \in Namespace(g) THEN NamedLeaf(g, name)
    ELSE IF name \in DOMAIN ctx.local THEN ctx.local[name]
    ELSE Foreign

\* LoopyExpressionContext.lookup: the local namespace first, then the
\* global one; Foreign stands for the KeyError of a name in neither.
Lookup(ctx, name) ==
    IF name \in DOMAIN ctx.local THEN ctx.local[name]
    ELSE IF name \in Namespace(g) THEN NamedLeaf(g, name)
    ELSE Foreign

\* expr.bindings of an IndexLambda
Bindings(nd) ==
    [x \in Range(nd.attr.bnames) |->
        nd.kids[CHOOSE i \in 1..Len(nd.attr.bnames) : nd.attr.bnames[i] = x]]

\* _indices_for_roll, _indices_for_axis_permutation, _indices_for_slice
IndicesForRoll(nd) ==
    [d \in 1..Ndim(nd) |->
        IF d - 1 = nd.attr.axis
        THEN Op("%", <<Op("-", <<Var(Positional(d - 1)), Num(nd.attr.shift)>>),
                       nd.shape[d]>>)
        ELSE Var(Positional(d - 1))]

\* indices[from_index] = var(f"_{to_index}"), the permutation read backwards.
IndicesForAxisPermutationInverse(nd) ==
    [p \in 1..Ndim(nd) |-> Var(Positional(nd.attr.axes[p]))]

IndicesForAxisPermutation(nd) ==
    [p \in 1..Ndim(nd) |->
        Var(Positional(CHOOSE f \in 0..(Ndim(nd) - 1) : nd.attr.axes[f + 1] = p - 1))]

IndicesForSlice(nd) ==
    [d \in 1..Ndim(nd) |->
        Op("+", <<Var(Positional(d - 1)), Num(nd.attr.begin[d])>>)]

IndicesFor(nd) ==
    CASE nd.kind = "Roll" -> IndicesForRoll(nd)
      [] nd.kind = "AxisPermutation" -> IndicesForAxisPermutation(nd)
      [] nd.kind = "Slice" -> IndicesForSlice(nd)

\* The inames map_matrix_product hands to its two operands.
X1Inames(n1) ==
    [i \in 1..n1 |-> IF i - 1 = n1 - 1 THEN Var("_r0") ELSE Var(Positional(i - 1))]

\* x2_inames numbered from _0 like x1_inames.
X2InamesFromZero(n1, n2) ==
    [i \in 1..n2 |-> IF i - 1 = 0 THEN Var("_r0") ELSE Var(Positional(i - 2))]

X2Inames(n1, n2) ==
    [i \in 1..n2 |-> IF i - 1 = 0 THEN Var("_r0")
                     ELSE Var(Positional((i - 1) + n1 - 2))]

\* "if expr in state.results", the first statement of every rule.
MemoizedNever(st, v) == FALSE

Memoized(st, v) == v \in DOMAIN st.results

\* One return of a rule: the node, whether the memo answered, whether the
\* kernel and the memo are what they were at the call, the result, and the
\* kernel at the return.
Returned(st0, st, v, hit) ==
    IF st.err # NoErr THEN st
    ELSE [st EXCEPT !.trace = Append(@, [node |-> v, hit |-> hit,
                                         kernel_same |-> st.kernel = st0.kernel,
                                         memo_same |-> st.results = st0.results,
                                         ret |-> st.ret, kernel |-> st.kernel])]

RECURSIVE CgRec(_, _)
RECURSIVE ExprGen(_, _, _)
RECURSIVE ExprGenEach(_, _, _, _, _)
RECURSIVE StackArrays(_, _, _, _, _)

\* InlinedExpressionGenMapper: map_variable and map_subscript lower the
\* named array and take its expression at () or at the subscript's index,
\* which is passed on as it is; the other expressions are rebuilt from
\* their mapped children.  There is no map_reduction.  ExprGenEach maps a
\* tuple of expressions in order; for the components of an input's shape
\* (shape = TRUE) the context must stay free of dependencies and reductions
\* after every one of them.
ExprGen(st, ctx, e) ==
    LET taken(s1, t) ==
            [st |-> Escalate(s1, t.ctx), ctx |-> t.ctx, expr |-> t.expr]
        lowered(s1) ==
            IF s1.err # NoErr THEN [st |-> s1, ctx |-> ctx, expr |-> e]
            ELSE taken(s1, ToLoopy(s1.ret, IF e.t = "var" THEN <<>> ELSE e.index, ctx))
        rebuilt(r) == [st |-> r.st, ctx |-> r.ctx, expr |-> Op(e.op, r.expr)]
    IN  IF st.err # NoErr THEN [st |-> st, ctx |-> ctx, expr |-> e]
        ELSE CASE e.t = "num" -> [st |-> st, ctx |-> ctx, expr |-> e]
               [] e.t \in {"var", "sub"} ->
                    IF Lookup(ctx, e.name) = Foreign
                    THEN [st |-> Fail(st, "KeyError", e.name), ctx |-> ctx, expr |-> e]
                    ELSE lowered(CgRec(st, Lookup(ctx, e.name)))
               [] e.t = "op" -> rebuilt(ExprGenEach(st, ctx, e.args, <<>>, FALSE))
               [] e.t = "red" ->
                    [st |-> Fail(st, "NotImplementedError", "map_reduction"),
                     ctx |-> ctx, expr |-> e]

ExprGenEach(st, ctx, es, done, shape) ==
    LET next(r) ==
            IF shape /\ r.st.err = NoErr /\ (r.ctx.deps # {} \/ r.ctx.reds # <<>>)
            THEN [r EXCEPT !.st = Fail(@, "AssertionError", "shape context")]
            ELSE ExprGenEach(r.st, r.ctx, Tail(es), Append(done, r.expr), shape)
    IN  IF es = <<>> \/ st.err # NoErr THEN [st |-> st, ctx |-> ctx, expr |-> done]
        ELSE next(ExprGen(st, ctx, Head(es)))

\* map_size_param: a value argument, stored under the node's own name.
SizeParamRule(st, v) ==
    Memoize([st EXCEPT !.kernel.args = Append(@, Arg(g[v].name, "ValueArg", <<>>, FALSE))],
            v, Stored(g[v].name, {}))

\* handle_array_input_argument without its two assertions.
InputRuleUnchecked(st, v) ==
    LET arg(r) ==
            IF r.st.err # NoErr THEN r.st
            ELSE Memoize([r.st EXCEPT !.kernel.args =
                             Append(@, Arg(g[v].name, "GlobalArg", r.expr, FALSE))],
                         v, Stored(g[v].name, {}))
    IN  arg(ExprGenEach(st, NewContext(<<>>), g[v].shape, <<>>, FALSE))

\* handle_array_input_argument: a global argument of the generated shape,
\* stored under the node's own name.
InputRule(st, v) ==
    LET arg(r) ==
            IF r.st.err # NoErr THEN r.st
            ELSE Memoize([r.st EXCEPT !.kernel.args =
                             Append(@, Arg(g[v].name, "GlobalArg", r.expr, FALSE))],
                         v, Stored(g[v].name, {}))
    IN  arg(ExprGenEach(st, NewContext(<<>>), g[v].shape, <<>>, TRUE))

\* map_matrix_product: both operands are lowered, their expressions are
\* taken at the contraction index _r0, and the sum over _r0 is stored in a
\* temporary by add_store.
MatrixProductRule(st, v) ==
    LET x1 == g[v].kids[1]
        x2 == g[v].kids[2]
        c0 == [NewContext(<<>>) EXCEPT !.reds = <<Bound("_r0", Num(0), g[x2].shape[1])>>]
        stored(o, a) ==
            IF a.st.err # NoErr THEN a.st
            ELSE Memoize(a.st, v, Stored(o.name, {a.id}))
        named(o, res) == stored(o, AddStore(o.st, o.name, v, res, TRUE))
        product(s2, t1, t2) ==
            IF t2.ctx.err # NoErr THEN Escalate(s2, t2.ctx)
            ELSE named(VarName(s2, "matmul"),
                       Inlined(Red(<<"_r0">>, Op("*", <<t1.expr, t2.expr>>)),
                               t2.ctx.reds, t2.ctx.deps))
        second(s2, t1) ==
            IF t1.ctx.err # NoErr THEN Escalate(s2, t1.ctx)
            ELSE product(s2, t1,
                         ToLoopy(s2.ret, X2Inames(Ndim(g[x1]), Ndim(g[x2])), t1.ctx))
        first(s1, s2) ==
            IF s2.err # NoErr THEN s2
            ELSE second(s2, ToLoopy(s1.ret, X1Inames(Ndim(g[x1])), c0))
        operands(s1) == IF s1.err # NoErr THEN s1 ELSE first(s1, CgRec(s1, x2))
    IN  operands(CgRec(st, x1))

\* The loop of map_stack over expr.arrays: array i is lowered and written
\* to out_name at position i of the stacking axis by an instruction that
\* depends on what its expression read and on the previous instruction.
StackArrays(lp, v, out_name, inames, i) ==
    LET insn(rr, id) ==
            StackArrays([st |-> id.st, reds |-> DictUpdate(lp.reds, rr.ctx.reds),
                         deps |-> {id.name},
                         insns |-> Append(lp.insns,
                             Insn(id.name, out_name,
                                  InsertAt(AsVars(inames), g[v].attr.axis, Num(i - 1)),
                                  rr.expr, Range(inames), rr.ctx.deps \cup lp.deps))],
                        v, out_name, inames, i + 1)
        renamed(rr) == insn(rr, InsnId(rr.st, out_name \o "_" \o ToString(i - 1)))
        taken(s1, t) ==
            IF t.ctx.err # NoErr THEN [lp EXCEPT !.st = Escalate(s1, t.ctx)]
            ELSE renamed(RenameReductions(s1, t.ctx, t.expr, out_name))
        array(s1) ==
            IF s1.err # NoErr THEN [lp EXCEPT !.st = s1]
            ELSE taken(s1, ToLoopy(s1.ret, AsVars(inames), NewContext(<<>>)))
    IN  IF i > Len(g[v].kids) \/ lp.st.err # NoErr THEN lp
        ELSE array(CgRec(lp.st, g[v].kids[i]))

\* map_stack: a temporary stack with inames stack_dim<j> for every axis but
\* the stacking one, one instruction per array, and the domain of the
\* first array's shape.
StackRule(st, v) ==
    LET done(o, nm, lp, dom) ==
            IF lp.st.err # NoErr THEN lp.st
            ELSE IF dom.error THEN Fail(lp.st, "AssertionError", "domain_for_shape")
            ELSE Memoize([lp.st EXCEPT !.kernel =
                            [@ EXCEPT !.temps = SetTemporary(@, GetLoopyTemporary(o.name, g[v])),
                                      !.domains = Append(@, dom),
                                      !.insns = @ \o lp.insns]],
                         v, Stored(o.name, lp.deps))
        looped(o, nm, lp) ==
            done(o, nm, lp, DomainForShape(nm.names, g[g[v].kids[1]].shape, lp.reds))
        named(o, nm) ==
            looped(o, nm, StackArrays([st |-> nm.st, reds |-> <<>>, deps |-> {},
                                       insns |-> <<>>], v, o.name, nm.names, 1))
        out(o) ==
            named(o, VarNames(o.st,
                      [j \in 1..(Ndim(g[v]) - 1) |->
                          o.name \o "_dim" \o
                              ToString(IF j - 1 >= g[v].attr.axis THEN j ELSE j - 1)],
                      <<>>))
    IN  out(VarName(st, "stack"))

\* handle_index_remapping: the expression of the array, taken at the
\* remapped indices, is the inlined result.
IndexRemappingRule(st, v) ==
    LET taken(s1, t) ==
            IF t.ctx.err # NoErr THEN Escalate(s1, t.ctx)
            ELSE Memoize(s1, v, Inlined(t.expr, t.ctx.reds, t.ctx.deps))
        array(s1) ==
            IF s1.err # NoErr THEN s1
            ELSE taken(s1, ToLoopy(s1.ret, IndicesFor(g[v]), NewContext(<<>>)))
    IN  array(CgRec(st, g[v].kids[1]))

\* map_index_lambda: the expression, generated with the bindings as the
\* local namespace, is the inlined result.
IndexLambdaRule(st, v) ==
    LET generated(r) ==
            IF r.st.err # NoErr THEN r.st
            ELSE Memoize(r.st, v, Inlined(r.expr, r.ctx.reds, r.ctx.deps))
    IN  generated(ExprGen(st, NewContext(Bindings(g[v])), g[v].attr.expr))

\* The body of the map_ method of a node's kind, past the memo check.
RuleBody(st, v) ==
    CASE g[v].kind = "SizeParam" -> SizeParamRule(st, v)
      [] g[v].kind \in {"Placeholder", "DataWrapper"} -> InputRule(st, v)
      [] g[v].kind = "MatrixProduct" -> MatrixProductRule(st, v)
      [] g[v].kind = "Stack" -> StackRule(st, v)
      [] g[v].kind \in {"Roll", "AxisPermutation", "Slice"} -> IndexRemappingRule(st, v)
      [] g[v].kind = "IndexLambda" -> IndexLambdaRule(st, v)

\* CodeGenMapper.rec: dispatch on the kind; the method returns the
\* memoized result when there is one and else runs its body.
CgRec(st, v) ==
    IF st.err # NoErr THEN st
    ELSE IF Dispatch("CodeGenMapper", g, v).how = "raise"
    THEN [st EXCEPT !.err = Dispatch("CodeGenMapper", g, v).err]
    ELSE IF Memoized(st, v)
    THEN Returned(st, [st EXCEPT !.ret = st.results[v]], v, TRUE)
    ELSE Returned(st, RuleBody([st EXCEPT !.runs = [@ EXCEPT ![v] = @ + 1]], v), v, FALSE)

\* ------------------------------------------------------------ generate_loopy

\* The namespace in its iteration order, as node numbers.
NamespaceItems(h) ==
    LET ids == LeafIds(h)
        F[n \in 0..Len(h)] ==
            IF n = 0 THEN <<>>
            ELSE IF n \in ids THEN Append(F[n - 1], n) ELSE F[n - 1]
    IN  F[Len(h)]

\* The names of the outputs: "_pt_out" for a single array, the keys of the
\* dictionary otherwise.
OutputNames(n) ==
    {[i \in 1..n |-> "out" \o ToString(i - 1)]}
    \cup (IF n = 1 THEN {<<"_pt_out">>} ELSE {})

\* generate_loopy up to the first loop: the result is normalised to a
\* dictionary of named arrays, the kernel is empty, and the names of the
\* inputs and of the outputs are reserved.
CgStart ==
    /\ pc = "build" /\ g # <<>>
    /\ \E rs \in RootSeqs(Len(g)) : \E nms \in OutputNames(Len(rs)) :
          /\ outs' = rs
          /\ cg' = [st |-> NewCodeGenState(InputNames(g) \cup Range(nms)),
                    names |-> nms, k |-> 0, bound |-> {}]
    /\ pc' = "namespace"
    /\ UNCHANGED <<g, cm, dm, wm, rc>>

\* "for name, val in namespace.items(): _ = mapper(val, state)", one item.
CgNamespaceItem ==
    /\ pc = "namespace" /\ cg.k < Len(NamespaceItems(g))
    /\ LET mapped(s1) ==
               /\ cg' = [cg EXCEPT !.st = s1, !.k = @ + 1]
               /\ pc' = IF s1.err # NoErr THEN "failed" ELSE "namespace"
       IN  mapped(CgRec(cg.st, NamespaceItems(g)[cg.k + 1]))
    /\ UNCHANGED <<g, outs, cm, dm, wm, rc>>

\* The namespace loop is over; the output loop starts.
CgNamespaceDone ==
    /\ pc = "namespace" /\ cg.k = Len(NamespaceItems(g))
    /\ pc' = "outputs"
    /\ cg' = [cg EXCEPT !.k = 0]
    /\ UNCHANGED <<g, outs, cm, dm, wm, rc>>

\* "for name, expr in outputs.items():
\*      add_store(name, expr, mapper(expr, state), state)", one item.
CgOutput ==
    /\ pc = "outputs" /\ cg.k < Len(outs)
    /\ LET stored(s2) ==
               /\ cg' = [cg EXCEPT !.st = s2, !.k = @ + 1]
               /\ pc' = IF s2.err # NoErr THEN "failed" ELSE "outputs"
           mapped(s1) ==
               stored(IF s1.err # NoErr THEN s1
                      ELSE AddStore(s1, cg.names[cg.k + 1], outs[cg.k + 1],
                                    s1.ret, FALSE).st)
       IN  mapped(CgRec(cg.st, outs[cg.k + 1]))
    /\ UNCHANGED <<g, outs, cm, dm, wm, rc>>

\* The bound arguments are the data of the namespace's DataWrappers; the
\* kernel and they are the bound program.
CgBind ==
    /\ pc = "outputs" /\ cg.k = Len(outs)
    /\ cg' = [cg EXCEPT !.bound = {g[i].name : i \in {j \in LeafIds(g) :
                                                      g[j].kind = "DataWrapper"}}]
    /\ pc' = "done"
    /\ UNCHANGED <<g, outs, cm, dm, wm, rc>>

GenNext ==
    AddCgNode \/ CgStart \/ CgNamespaceItem \/ CgNamespaceDone \/ CgOutput \/ CgBind

SpecGen == BuildInit /\ [][GenNext]_vars

\* The nodes a lowering call asks for: every item of the namespace, and
\* every node the outputs reach.
Requested == LeafIds(g) \cup UNION {CgReach(g, outs[i]) : i \in 1..Len(outs)}

\* The returns of node v's rule, in order.
ReturnsOf(v) == SelectSeq(cg.st.trace, LAMBDA r : r.node = v)

\* The nodes that have v among their children or bindings.
ParentsOf(v) == {p \in 1..Len(g) : v \in Range(g[p].kids)}

\* C1: within one lowering call the body of a node's rule runs at most once
\* and, for every node the call has asked for, exactly once, whatever the
\* node's fan-in; the node's memo entry is written once; the first return of
\* the rule is the one that ran the body, and every later return is answered
\* by the memo: it returns the memoized result and leaves the kernel and the
\* memo as they were.
C1_LoweredOnce ==
    pc \in {"namespace", "outputs", "done"} =>
        /\ \A v \in 1..Len(g) :
              /\ cg.st.runs[v] <= 1
              /\ cg.st.writes[v] = cg.st.runs[v]
              /\ (cg.st.runs[v] = 1) <=> (v \in DOMAIN cg.st.results)
              /\ (cg.st.runs[v] = 1) <=> (ReturnsOf(v) # <<>>)
              /\ \A i \in 1..Len(ReturnsOf(v)) :
                    /\ ReturnsOf(v)[i].hit <=> (i > 1)
                    /\ ReturnsOf(v)[i].ret = cg.st.results[v]
                    /\ ReturnsOf(v)[i].hit =>
                          ReturnsOf(v)[i].kernel_same /\ ReturnsOf(v)[i].memo_same
        /\ pc = "done" => \A v \in Requested : cg.st.runs[v] = 1

\* A finished call in which a node with two parents, both reached from the
\* outputs, was lowered once and asked for again by each parent.
C1_Witness ==
    /\ pc = "done"
    /\ \E v \in 1..Len(g) :
          /\ Cardinality(ParentsOf(v) \cap Requested) >= 2
          /\ cg.st.runs[v] = 1
          /\ Len(ReturnsOf(v)) >= 3
          /\ \E p \in ParentsOf(v) : cg.st.results[p].t = "inlined"

\* The instructions of the kernel that assign to the buffer called name.
StoresTo(k, name) == {i \in 1..Len(k.insns) : k.insns[i].assignee.name = name}

\* C2: when generate_loopy returns, every output name has exactly one
\* instruction assigning to a buffer of that name, the name is declared once,
\* as an output-only global argument, and it is not a temporary; this holds
\* for outputs whose lowered result is Stored and for those whose result is
\* Inlined.
C2_OutputStored ==
    pc = "done" =>
        \A o \in 1..Len(outs) :
            LET k == cg.st.kernel
                name == cg.names[o]
            IN  /\ Cardinality(StoresTo(k, name)) = 1
                /\ Cardinality({a \in 1..Len(k.args) : k.args[a].name = name}) = 1
                /\ \A a \in 1..Len(k.args) :
                      k.args[a].name = name =>
                          k.args[a].cls = "GlobalArg" /\ k.args[a].is_output_only
                /\ \A t \in 1..Len(k.temps) : k.temps[t].name # name
                /\ cg.st.results[outs[o]].t \in {"stored", "inlined"}

\* A finished call with two outputs, one whose result is Stored in a
\* temporary and one whose result is Inlined.
C2_Witness ==
    /\ pc = "done" /\ Len(outs) = 2
    /\ \E o \in 1..2 :
          /\ cg.st.results[outs[o]].t = "stored"
          /\ g[outs[o]].kind \in {"MatrixProduct", "Stack"}
    /\ \E o \in 1..2 : cg.st.results[outs[o]].t = "inlined"

\* The ids of the instructions an instruction depends on, directly or not.
RECURSIVE TransitiveDependsOn(_, _)
TransitiveDependsOn(k, id) ==
    LET direct == UNION {k.insns[i].depends_on : i \in {j \in 1..Len(k.insns) :
                                                        k.insns[j].id = id}}
    IN  direct \cup UNION {TransitiveDependsOn(k, d) : d \in direct}

WritersOf(k, name) == {k.insns[i].id : i \in StoresTo(k, name)}

\* C3: in the kernel of a lowering call, an instruction whose expression
\* reads a buffer that instructions of the kernel write has every one of
\* those instructions among its transitive dependencies.
C3_ReadersDependOnWriters ==
    pc \in {"namespace", "outputs", "done"} =>
        LET k == cg.st.kernel IN
        \A i \in 1..Len(k.insns) :
            \A b \in AllVars(k.insns[i].expr) :
                WritersOf(k, b) \subseteq TransitiveDependsOn(k, k.insns[i].id)

\* A finished call whose output is an Inlined node over a stack temporary
\* written by two instructions: the output's store depends on the second
\* directly and on the first through it.
C3_Witness ==
    /\ pc = "done"
    /\ cg.st.results[outs[1]].t = "inlined"
    /\ LET k == cg.st.kernel IN
       \E i \in 1..Len(k.insns) :
           /\ k.insns[i].assignee.name = cg.names[1]
           /\ \E b \in AllVars(k.insns[i].expr) :
                 /\ Cardinality(WritersOf(k, b)) = 2
                 /\ ~(WritersOf(k, b) \subseteq k.insns[i].depends_on)

\* ------------------------------------ reductions taken into one context

\* The bounds a reduction may have: constant, or up to a size parameter.
RedBounds == {<<Num(0), Num(2)>>, <<Num(0), Var("n")>>, <<Num(1), Num(3)>>}

\* The Inlined results with a reductions, as from_loopy_expression builds
\* them from a context: the reductions are named _r0 .. _r(a-1) and the
\* expression sums a stored array over them.
InlinedWith(a) ==
    {Inlined(IF a = 0 THEN Sub("p", <<Var("_0")>>)
             ELSE Red([i \in 1..a |-> ReductionName(i - 1)],
                      Sub("p", <<Var("_0")>> \o
                                   [i \in 1..a |-> Var(ReductionName(i - 1))])),
             [i \in 1..a |-> Bound(ReductionName(i - 1), bs[i][1], bs[i][2])],
             {}) : bs \in [1..a -> RedBounds]}

\* The contexts a rule converts results into: a new one, or the one of
\* map_matrix_product, which holds _r0 already.
StartContexts ==
    {NewContext(<<>>),
     [NewContext(<<>>) EXCEPT !.reds = <<Bound("_r0", Num(0), Var("n"))>>]}

RedInit ==
    /\ g = <<>> /\ outs = <<>> /\ pc = "inline"
    /\ cm = Idle /\ dm = Idle /\ wm = Idle /\ rc = Idle
    /\ \E c \in StartContexts :
          cg = [ctx |-> c, init |-> c.reds, added |-> <<>>, taken |-> 0,
                expr |-> Idle, sizes |-> <<>>]

\* result.to_loopy_expression(indices, ctx) for one more Inlined result.
InlineResult ==
    /\ pc = "inline" /\ cg.taken < MaxInlines
    /\ \E a \in 0..MaxReds : \E res \in InlinedWith(a) :
          LET taken(t) ==
                  cg' = [cg EXCEPT !.ctx = t.ctx, !.added = @ \o res.reds,
                                   !.taken = @ + 1, !.expr = t.expr,
                                   !.sizes = Append(@, a)]
          IN  taken(ToLoopy(res, <<Var("i")>>, cg.ctx))
    /\ UNCHANGED <<g, outs, pc, cm, dm, wm, rc>>

RedNext == InlineResult

SpecRed == RedInit /\ [][RedNext]_vars

\* C11: after Inlined results are converted into one expression context,
\* the context holds its initial reductions followed by one reduction per
\* reduction of every result, so c + a + b entries after two results; the
\* names are pairwise distinct, every reduction keeps its own bounds, the
\* assertion has not failed, and the expression returned last runs over
\* the names its reductions were given.
C11_ReductionsDisjoint ==
    pc = "inline" =>
        LET reds == cg.ctx.reds
            c    == Len(cg.init)
        IN  /\ cg.ctx.err = NoErr
            /\ Len(reds) = c + Len(cg.added)
            /\ \A i, j \in 1..Len(reds) : reds[i].name = reds[j].name => i = j
            /\ \A i \in 1..c : reds[i] = cg.init[i]
            /\ \A i \in 1..Len(cg.added) :
                  /\ reds[c + i].lo = cg.added[i].lo
                  /\ reds[c + i].hi = cg.added[i].hi
            /\ cg.taken > 0 =>
                  LET a == cg.sizes[cg.taken]
                  IN  AllVars(cg.expr) \cap RedNames(reds) =
                          {reds[i].name : i \in (Len(reds) - a + 1)..Len(reds)}

\* Two results with reductions were converted into the context of a matrix
\* product.
C11_Witness ==
    /\ pc = "inline" /\ cg.taken = 2
    /\ Len(cg.init) = 1
    /\ cg.sizes[1] >= 1 /\ cg.sizes[2] >= 1
    /\ Len(cg.ctx.reds) = 1 + cg.sizes[1] + cg.sizes[2]

\* ------------------------------------------------------ C12: input arguments

\* Graphs whose inputs have shapes over the scalars of the namespace: a
\* size parameter, or a named array of no dimension that is not an input,
\* here the product of two vectors.
ShapeNodesOver(h) ==
    LET p == Len(h)
        scalars == {h[i].name : i \in {j \in Near(h) : h[j].name # "" /\ Ndim(h[j]) = 0}}
        shapes == {<<Num(2)>>}
                  \cup {<<Var(x)>> : x \in scalars}
                  \cup {<<Num(2), Var(x)>> : x \in scalars}
                  \cup {<<Var(x), Num(2)>> : x \in scalars}
        vectors == {c \in Near(h) : Ndim(h[c]) = 1}
    IN  {CgNode("SizeParam", "n" \o ToString(p + 1), <<>>, <<>>, NoAttr)}
        \cup {CgNode("Placeholder", "p" \o ToString(p + 1), <<>>, sh, NoAttr) : sh \in shapes}
        \cup {CgNode("DataWrapper", "d" \o ToString(p + 1), <<>>, sh, NoAttr) : sh \in shapes}
        \cup {CgNode("MatrixProduct", "y" \o ToString(p + 1), ks, <<>>, NoAttr) :
                ks \in {q \in KidSeqs(vectors, {2}) : h[q[2]].shape[1] = h[q[1]].shape[1]}}

AddShapeNode ==
    /\ pc = "build" /\ Len(g) < MaxNodes
    /\ \E nd \in ShapeNodesOver(g) : g' = Append(g, nd)
    /\ UNCHANGED <<outs, pc, cm, dm, wm, rc, cg>>

LeafNext ==
    AddShapeNode \/ CgStart \/ CgNamespaceItem \/ CgNamespaceDone \/ CgOutput \/ CgBind

SpecLeaf == BuildInit /\ [][LeafNext]_vars

\* The names the shape of node v resolves in the namespace.
ShapeNames(v) == UNION {FreeVars(g[v].shape[i]) : i \in 1..Len(g[v].shape)}

\* A result whose expression brings dependencies or reductions with it.
Laden(res) == res.deps # {} \/ (res.t = "inlined" /\ res.reds # <<>>)

\* The place of node v's first return in the trace, 0 when it has none.
FirstReturn(st, v) ==
    IF \E i \in 1..Len(st.trace) : st.trace[i].node = v
    THEN CHOOSE i \in 1..Len(st.trace) :
            /\ st.trace[i].node = v
            /\ \A j \in 1..(i - 1) : st.trace[j].node # v
    ELSE 0

ArgsNamed(k, name) == {i \in 1..Len(k.args) : k.args[i].name = name}

\* C12: once the rule of a Placeholder or DataWrapper has run, either a
\* component of the shape resolved to a result with dependencies or
\* reductions and the whole call has failed on the assertion, with no
\* argument and no memo entry for the input; or every component of the
\* shape was lowered before the input's rule returned, the kernel has
\* exactly one argument of the input's name, a global one of the generated
\* shape, and the memo holds Stored(name, {}).
C12_InputArgument ==
    pc \in {"namespace", "outputs", "done", "failed"} =>
        \A v \in {i \in 1..Len(g) : g[i].kind \in {"Placeholder", "DataWrapper"}
                                      /\ cg.st.runs[i] >= 1} :
            LET st == cg.st
                laden == {x \in ShapeNames(v) :
                            /\ NamedLeaf(g, x) \in DOMAIN st.results
                            /\ Laden(st.results[NamedLeaf(g, x)])}
            IN  /\ cg.st.runs[v] = 1
                /\ laden # {} =>
                      /\ pc = "failed"
                      /\ st.err = [type |-> "AssertionError", what |-> "shape context"]
                      /\ v \notin DOMAIN st.results
                      /\ ArgsNamed(st.kernel, g[v].name) = {}
                /\ (laden = {} /\ st.err = NoErr) =>
                      /\ v \in DOMAIN st.results
                      /\ st.results[v] = Stored(g[v].name, {})
                      /\ Cardinality(ArgsNamed(st.kernel, g[v].name)) = 1
                      /\ \A i \in ArgsNamed(st.kernel, g[v].name) :
                            st.kernel.args[i] = Arg(g[v].name, "GlobalArg", g[v].shape, FALSE)
                      /\ \A x \in ShapeNames(v) :
                            /\ FirstReturn(st, NamedLeaf(g, x)) >= 1
                            /\ FirstReturn(st, NamedLeaf(g, x)) < FirstReturn(st, v)

\* An input of shape (2, y), y the product of two vectors, was lowered
\* after an input of a plain shape: the first has its argument, the second
\* passed its first component and failed on its second.
C12_Witness ==
    /\ pc = "failed"
    /\ cg.st.err = [type |-> "AssertionError", what |-> "shape context"]
    /\ \E v \in 1..Len(g) : \E u \in 1..Len(g) :
          /\ g[v].kind = "Placeholder" /\ Len(g[v].shape) = 2
          /\ g[v].shape[1] = Num(2) /\ g[v].shape[2] = Var(g[u].name)
          /\ g[u].kind = "MatrixProduct"
          /\ cg.st.runs[v] = 1 /\ v \notin DOMAIN cg.st.results
          /\ cg.st.results[u].deps # {}
    /\ \E w \in DOMAIN cg.st.results :
          /\ g[w].kind \in {"Placeholder", "DataWrapper"}
          /\ cg.st.results[w] = Stored(g[w].name, {})
          /\ Cardinality(ArgsNamed(cg.st.kernel, g[w].name)) = 1
\* ------------------------------------------------- C13: the index domain

\* The value of an affine expression under a binding of the parameters.
RECURSIVE Eval(_, _)
Eval(e, b) ==
    CASE e.t = "num" -> e.v
      [] e.t = "var" -> b[e.name]
      [] e.t = "op" /\ e.op = "+" -> Eval(e.args[1], b) + Eval(e.args[2], b)
      [] e.t = "op" /\ e.op = "-" -> Eval(e.args[1], b) - Eval(e.args[2], b)

\* The values a coordinate is tried at: below zero, and past every extent.
Coords == (0 - 1)..(MaxParam + 3)

\* The integer points of a domain for one binding of its parameters.
Points(dom, b) ==
    {pt \in [dom.set_names -> Coords] :
        \A c \in dom.constraints :
            Eval(c.lo, b) <= pt[c.name] /\ pt[c.name] < Eval(c.hi, b)}

DimNames == {<<>>, <<"i">>, <<"i", "j">>}

Extents == {Num(5), Num(2), Var("n"), Op("+", <<Var("m"), Num(1)>>)}

DomShapes == {<<>>} \cup {<<a>> : a \in Extents}
             \cup {<<a, b>> : a \in Extents, b \in Extents}

DomReductions == {<<>>} \cup {<<Bound("r", bs[1], bs[2])>> : bs \in RedBounds}

DomInit ==
    /\ g = <<>> /\ outs = <<>> /\ pc = "domain"
    /\ cm = Idle /\ dm = Idle /\ wm = Idle /\ rc = Idle
    /\ \E dn \in DimNames : \E sh \in DomShapes : \E rd \in DomReductions :
          cg = [dim_names |-> dn, shape |-> sh, reds |-> rd,
                dom |-> Idle, binding |-> Idle, points |-> {}]

\* dom = domain_for_shape(dim_names, shape, reductions)
DomBuild ==
    /\ pc = "domain"
    /\ LET built(dom) ==
               /\ cg' = [cg EXCEPT !.dom = dom]
               /\ pc' = IF dom.error THEN "failed" ELSE "built"
       IN  built(DomainForShape(cg.dim_names, cg.shape, cg.reds))
    /\ UNCHANGED <<g, outs, cm, dm, wm, rc>>

\* The domain is read at one value of every parameter.
DomBind ==
    /\ pc = "built"
    /\ \E b \in [cg.dom.params -> 0..MaxParam] :
          cg' = [cg EXCEPT !.binding = b, !.points = Points(cg.dom, b)]
    /\ pc' = "bound"
    /\ UNCHANGED <<g, outs, cm, dm, wm, rc>>

DomNext == DomBuild \/ DomBind

SpecDom == DomInit /\ [][DomNext]_vars

\* The names in the shape and in the reduction bounds.
BoundVars(sh, reds) ==
    UNION {AllVars(sh[i]) : i \in 1..Len(sh)}
    \cup UNION {AllVars(reds[i].lo) \cup AllVars(reds[i].hi) : i \in 1..Len(reds)}

\* C13: domain_for_shape fails exactly when the numbers of axis names and
\* of shape entries differ; otherwise its parameters are the variables of
\* the shape entries and of the reduction bounds, and for every binding of
\* them the points are the tuples over the axes and the reductions with
\* 0 <= axis < shape[axis] and lower <= r < upper.  The shape (5, n) has
\* the one parameter n and 15 points at n = 3.
C13_DomainPoints ==
    /\ pc \in {"built", "bound", "failed"} =>
          /\ (pc = "failed") <=> (Len(cg.dim_names) # Len(cg.shape))
          /\ pc # "failed" =>
                /\ cg.dom.params = BoundVars(cg.shape, cg.reds)
                /\ cg.dom.set_names = Range(cg.dim_names) \cup RedNames(cg.reds)
    /\ pc = "bound" =>
          /\ cg.points =
                {pt \in [Range(cg.dim_names) \cup RedNames(cg.reds) -> Coords] :
                    /\ \A i \in 1..Len(cg.dim_names) :
                          /\ 0 <= pt[cg.dim_names[i]]
                          /\ pt[cg.dim_names[i]] < Eval(cg.shape[i], cg.binding)
                    /\ \A i \in 1..Len(cg.reds) :
                          /\ Eval(cg.reds[i].lo, cg.binding) <= pt[cg.reds[i].name]
                          /\ pt[cg.reds[i].name] < Eval(cg.reds[i].hi, cg.binding)}
          /\ (cg.shape = <<Num(5), Var("n")>> /\ cg.reds = <<>>) =>
                /\ cg.dom.params = {"n"}
                /\ cg.binding["n"] = 3 => Cardinality(cg.points) = 15

\* The domain of the shape (5, n) was read at n = 3 and has 15 points.
C13_Witness ==
    /\ pc = "bound"
    /\ cg.shape = <<Num(5), Var("n")>> /\ cg.reds = <<>>
    /\ cg.binding = [x \in {"n"} |-> 3]
    /\ Cardinality(cg.points) = 15
\* --------------------------------------------- C14: the stores of a Stack

\* The i-th smallest member of a set of positions.
Nth(S, i) == CHOOSE x \in S : Cardinality({y \in S : y < x}) = i - 1

\* A sequence without its k-th entry.
Without(s, k) == SubSeq(s, 1, k - 1) \o SubSeq(s, k + 1, Len(s))

\* C14: a memoized Stack of n arrays has n instructions writing its
\* temporary; the i-th of them, in kernel order, writes at the index tuple
\* all of them share with the constant i - 1 put in at the stacking axis,
\* and depends on what the result of array i depends on, and from the
\* second on also on the instruction before it; the memoized result is
\* Stored in the temporary and depends on the last instruction alone.
C14_StackChain ==
    pc \in {"namespace", "outputs", "done"} =>
        \A v \in {u \in DOMAIN cg.st.results : g[u].kind = "Stack"} :
            LET k     == cg.st.kernel
                res   == cg.st.results[v]
                n     == Len(g[v].kids)
                ax    == g[v].attr.axis
                at    == StoresTo(k, res.name)
                insn(i) == k.insns[Nth(at, i)]
                kid(i)  == cg.st.results[g[v].kids[i]]
            IN  /\ res.t = "stored"
                /\ Cardinality(at) = n
                /\ \A i \in 1..n :
                      /\ Len(insn(i).assignee.index) = Ndim(g[v])
                      /\ insn(i).assignee.index[ax + 1] = Num(i - 1)
                      /\ Without(insn(i).assignee.index, ax + 1)
                            = Without(insn(1).assignee.index, ax + 1)
                      /\ \A d \in 1..(Ndim(g[v]) - 1) :
                            /\ Without(insn(i).assignee.index, ax + 1)[d].t = "var"
                            /\ Without(insn(i).assignee.index, ax + 1)[d].name
                                  \in insn(i).within_inames
                      /\ insn(i).depends_on =
                            kid(i).deps \cup (IF i = 1 THEN {} ELSE {insn(i - 1).id})
                /\ res.deps = {insn(n).id}

\* A two-dimensional Stack of two arrays along its second axis whose first
\* array is itself stored by an instruction has been lowered.
C14_Witness ==
    /\ pc = "done"
    /\ \E v \in DOMAIN cg.st.results :
          /\ g[v].kind = "Stack" /\ Len(g[v].kids) = 2 /\ g[v].attr.axis = 1
          /\ cg.st.results[g[v].kids[1]].deps # {}
          /\ Cardinality(StoresTo(cg.st.kernel, cg.st.results[v].name)) = 2
\* ------------------------------------------------ C15: the matrix product

\* The positional names _d among the entries of an index tuple.
PositionalsOf(idx, top) ==
    {d \in 0..top : \E i \in 1..Len(idx) : idx[i] = Var(Positional(d))}

\* C15: for a memoized MatrixProduct of operands with m and n axes, the
\* left operand is fetched with _r0 on its last axis and _0 .. _(m-2) on
\* the others, the right one with _r0 on its first axis and _(m-1) ..
\* _(m+n-3) on the others, so that the positional indices are pairwise
\* distinct and exactly _0 .. _(m+n-3).  The result is Stored in a
\* temporary no other node is stored in and depends on the one
\* instruction that writes it; that instruction sums over one reduction
\* variable, which the domain bounds by 0 and the extent of the right
\* operand's first axis, and reads an operand that is an input at the
\* instruction's own indices with the reduction variable on the
\* contracted axis.
C15_MatrixProduct ==
    pc \in {"namespace", "outputs", "done"} =>
        \A v \in {u \in DOMAIN cg.st.results : g[u].kind = "MatrixProduct"} :
            LET k   == cg.st.kernel
                res == cg.st.results[v]
                x1  == g[v].kids[1]
                x2  == g[v].kids[2]
                m   == Ndim(g[x1])
                n   == Ndim(g[x2])
                a   == X1Inames(m)
                b   == X2Inames(m, n)
                at  == StoresTo(k, res.name)
                insn == k.insns[CHOOSE i \in at : TRUE]
                out == insn.assignee.index
                r   == Var(insn.expr.inames[1])
            IN  /\ Len(a) = m /\ Len(b) = n
                /\ a[m] = Var("_r0") /\ b[1] = Var("_r0")
                /\ \A i \in 1..(m - 1) : a[i] = Var(Positional(i - 1))
                /\ \A i \in 2..n : b[i] = Var(Positional(m - 1 + (i - 2)))
                /\ PositionalsOf(a, m + n) \cap PositionalsOf(b, m + n) = {}
                /\ PositionalsOf(a, m + n) \cup PositionalsOf(b, m + n) = 0..(m + n - 3)
                /\ res.t = "stored"
                /\ \E i \in 1..Len(k.temps) : k.temps[i].name = res.name
                /\ ArgsNamed(k, res.name) = {}
                /\ \A u \in DOMAIN cg.st.results :
                      (u # v /\ cg.st.results[u].t = "stored")
                          => cg.st.results[u].name # res.name
                /\ Cardinality(at) = 1
                /\ res.deps = {insn.id}
                /\ insn.expr.t = "red" /\ Len(insn.expr.inames) = 1
                /\ Len(out) = m + n - 2
                /\ \E dom \in Range(k.domains) :
                      /\ dom.set_names = {out[i].name : i \in 1..Len(out)} \cup {r.name}
                      /\ Bound(r.name, Num(0), g[x2].shape[1]) \in dom.constraints
                /\ g[x1].kind \in LeafKinds =>
                      insn.expr.body.args[1] =
                          Sub(g[x1].name, SubSeq(out, 1, m - 1) \o <<r>>)
                /\ g[x2].kind \in LeafKinds =>
                      insn.expr.body.args[2] =
                          Sub(g[x2].name, <<r>> \o SubSeq(out, m, m + n - 2))

\* The product of two matrices that are inputs has been lowered.
C15_Witness ==
    /\ pc = "done"
    /\ \E v \in DOMAIN cg.st.results :
          /\ g[v].kind = "MatrixProduct"
          /\ Ndim(g[g[v].kids[1]]) = 2 /\ Ndim(g[g[v].kids[2]]) = 2
          /\ g[g[v].kids[1]].kind \in LeafKinds
          /\ g[g[v].kids[2]].kind \in LeafKinds
          /\ Cardinality(StoresTo(cg.st.kernel, cg.st.results[v].name)) = 1
\* ------------------------------------------------ C16: index remappings

\* The orders of n axes.
AxisOrders(n) ==
    {f \in [1..n -> 0..(n - 1)] : \A i, j \in 1..n : f[i] = f[j] => i = j}

\* begin of a Slice that drops the first entry of axis b.
BeginAt(n, b) == [i \in 1..n |-> IF i - 1 = b THEN 1 ELSE 0]

\* Graphs of index remappings: inputs of one and of three axes, and every
\* Roll by one, AxisPermutation and one-sided Slice of an earlier node.
RemapNodesOver(h) ==
    LET p == Len(h) IN
    {CgNode("Placeholder", "p" \o ToString(p + 1), <<>>, sh, NoAttr) :
        sh \in {<<Num(2)>>, <<Num(2), Num(3), Num(4)>>}}
    \cup UNION {{CgNode("Roll", "", <<c>>, h[c].shape, [axis |-> ax, shift |-> 1]) :
                    ax \in 0..(Ndim(h[c]) - 1)} : c \in Near(h)}
    \cup UNION {{CgNode("AxisPermutation", "", <<c>>,
                        [i \in 1..Ndim(h[c]) |-> h[c].shape[axes[i] + 1]],
                        [axes |-> axes]) : axes \in AxisOrders(Ndim(h[c]))} :
                c \in Near(h)}
    \cup UNION {{CgNode("Slice", "", <<c>>,
                        [i \in 1..Ndim(h[c]) |->
                            IF i - 1 = b THEN Shrunk(h[c].shape[i]) ELSE h[c].shape[i]],
                        [begin |-> BeginAt(Ndim(h[c]), b)]) :
                    b \in 0..(Ndim(h[c]) - 1)} : c \in Near(h)}

AddRemapNode ==
    /\ pc = "build" /\ Len(g) < MaxNodes
    /\ \E nd \in RemapNodesOver(g) :
          /\ \A i \in 1..Len(g) : g[i] # nd
          /\ g' = Append(g, nd)
    /\ UNCHANGED <<outs, pc, cm, dm, wm, rc, cg>>

RemapNext ==
    AddRemapNode \/ CgStart \/ CgNamespaceItem \/ CgNamespaceDone \/ CgOutput \/ CgBind

SpecRemap == BuildInit /\ [][RemapNext]_vars

\* The index tuple C16 states for node nd.
RemappedIndices(nd) ==
    CASE nd.kind = "Roll" ->
            [d \in 1..Ndim(nd) |->
                IF d - 1 = nd.attr.axis
                THEN Op("%", <<Op("-", <<Var(Positional(d - 1)), Num(nd.attr.shift)>>),
                               nd.shape[d]>>)
                ELSE Var(Positional(d - 1))]
      [] nd.kind = "Slice" ->
            [d \in 1..Ndim(nd) |->
                Op("+", <<Var(Positional(d - 1)), Num(nd.attr.begin[d])>>)]

\* C16: when the rule of a Roll, an AxisPermutation or a Slice returns
\* without a memo hit, the kernel is the one its array's lowering left,
\* and the result is Inlined with the dependencies of the array's result
\* and no reductions.  Over an input the expression is the input
\* subscripted by: the positional indices with (index - shift) mod extent
\* on the rolled axis; for each k, the positional index k at position
\* axes[k], every position being filled; positional index d plus begin[d].
C16_IndexRemapping ==
    pc \in {"namespace", "outputs", "done"} =>
        \A t \in 1..Len(cg.st.trace) :
            LET e  == cg.st.trace[t]
                v  == e.node
                nd == g[v]
                idx == e.ret.expr.index
            IN  (nd.kind \in {"Roll", "AxisPermutation", "Slice"} /\ ~e.hit) =>
                    /\ t > 1
                    /\ cg.st.trace[t - 1].node = nd.kids[1]
                    /\ e.kernel = cg.st.trace[t - 1].kernel
                    /\ e.ret.t = "inlined"
                    /\ e.ret.reds = <<>>
                    /\ e.ret.deps = cg.st.trace[t - 1].ret.deps
                    /\ g[nd.kids[1]].kind \in LeafKinds =>
                          /\ e.ret.expr.t = "sub"
                          /\ e.ret.expr.name = g[nd.kids[1]].name
                          /\ Len(idx) = Ndim(g[nd.kids[1]])
                          /\ nd.kind \in {"Roll", "Slice"} => idx = RemappedIndices(nd)
                          /\ nd.kind = "AxisPermutation" =>
                                \A k \in 0..(Ndim(nd) - 1) :
                                    idx[nd.attr.axes[k + 1] + 1] = Var(Positional(k))

\* An input of three axes was lowered under a permutation that is not its
\* own inverse, and under a Roll or a Slice of another axis than the first.
C16_Witness ==
    /\ pc = "done"
    /\ \E v \in DOMAIN cg.st.results :
          /\ g[v].kind = "AxisPermutation" /\ g[v].attr.axes = <<1, 2, 0>>
          /\ g[g[v].kids[1]].kind = "Placeholder"
          /\ cg.st.results[v].t = "inlined"
    /\ \E v \in DOMAIN cg.st.results :
          /\ \/ g[v].kind = "Roll" /\ g[v].attr.axis = 2
             \/ g[v].kind = "Slice" /\ g[v].attr.begin = <<0, 1, 0>>
          /\ g[g[v].kids[1]].kind = "Placeholder"
\* ------------------------------------- C17: the names of an IndexLambda

\* A reference to the input called name at a constant place.
RefAt(name, n) == IF n = 0 THEN Var(name) ELSE Sub(name, <<Num(0)>>)

\* Graphs of IndexLambdas over scalars and vectors: an expression over a
\* binding of its own, over a binding that has the name of an input, over
\* an input of the namespace, over both, and over an input at an index
\* that is not positional.
LambdaNodesOver(h) ==
    LET p == Len(h)
        inputs == {i \in Near(h) : h[i].kind \in LeafKinds}
    IN  {CgNode("SizeParam", "n" \o ToString(p + 1), <<>>, <<>>, NoAttr),
         CgNode("Placeholder", "p" \o ToString(p + 1), <<>>, <<Num(2)>>, NoAttr)}
        \cup {CgNode("IndexLambda", "", <<c>>, h[c].shape,
                     [expr |-> Op("*", <<Num(2), Ref("_in0", Ndim(h[c]))>>),
                      bnames |-> <<"_in0">>]) : c \in Near(h)}
        \cup {CgNode("IndexLambda", "", <<c>>, h[c].shape,
                     [expr |-> Op("+", <<Num(1), Ref(h[x].name, Ndim(h[c]))>>),
                      bnames |-> <<h[x].name>>]) :
                c \in Near(h), x \in inputs}
        \cup {CgNode("IndexLambda", "", <<>>, h[y].shape,
                     [expr |-> Op("+", <<Num(55), Ref(h[y].name, Ndim(h[y]))>>),
                      bnames |-> <<>>]) : y \in inputs}
        \cup {CgNode("IndexLambda", "", <<c>>, h[c].shape,
                     [expr |-> Op("+", <<Ref("_in0", Ndim(h[c])),
                                         RefAt(h[y].name, Ndim(h[y]))>>),
                      bnames |-> <<"_in0">>]) :
                c \in Near(h), y \in inputs}
        \cup {CgNode("IndexLambda", "", <<>>, <<Shrunk(h[y].shape[1])>>,
                     [expr |-> Sub(h[y].name, <<Op("+", <<Var("_0"), Num(1)>>)>>),
                      bnames |-> <<>>]) :
                y \in {i \in inputs : Ndim(h[i]) = 1}}

AddLambdaNode ==
    /\ pc = "build" /\ Len(g) < MaxNodes
    /\ \E nd \in LambdaNodesOver(g) :
          /\ \A i \in 1..Len(g) : g[i] # nd
          /\ g' = Append(g, nd)
    /\ UNCHANGED <<outs, pc, cm, dm, wm, rc, cg>>

LambdaNext ==
    AddLambdaNode \/ CgStart \/ CgNamespaceItem \/ CgNamespaceDone \/ CgOutput \/ CgBind

SpecLambda == BuildInit /\ [][LambdaNext]_vars

\* The node C17 has a name stand for in the expression of IndexLambda v.
Resolved(v, name) ==
    IF \E i \in 1..Len(g[v].attr.bnames) : g[v].attr.bnames[i] = name
    THEN g[v].kids[CHOOSE i \in 1..Len(g[v].attr.bnames) : g[v].attr.bnames[i] = name]
    ELSE CHOOSE u \in 1..Len(g) : g[u].kind \in LeafKinds /\ g[u].name = name

\* The names an expression looks up: those outside of index tuples.
RECURSIVE LookedUp(_)
LookedUp(e) ==
    CASE e.t = "num" -> {}
      [] e.t \in {"var", "sub"} -> {e.name}
      [] e.t = "op" -> UNION {LookedUp(e.args[i]) : i \in 1..Len(e.args)}

\* The expression of IndexLambda v with every name replaced by the buffer
\* of the input it stands for, index tuples left as they are.
RECURSIVE Fetched(_, _)
Fetched(v, e) ==
    CASE e.t = "num" -> e
      [] e.t = "var" -> Var(g[Resolved(v, e.name)].name)
      [] e.t = "sub" -> Sub(g[Resolved(v, e.name)].name, e.index)
      [] e.t = "op" -> Op(e.op, [i \in 1..Len(e.args) |-> Fetched(v, e.args[i])])

\* C17: when the rule of an IndexLambda returns without a memo hit, every
\* name of its expression has been lowered as the node its own bindings
\* give it, or, when they have none of that name, as the namespace's; the
\* result is Inlined and depends on what the results of those nodes
\* depend on.  When all of them are inputs, the result's expression is
\* the IndexLambda's with a bare name replaced by the input's bare name
\* and a subscripted one by the input subscripted by the same index
\* tuple.  The bindings of another IndexLambda play no part in it.
C17_NameResolution ==
    pc \in {"namespace", "outputs", "done"} =>
        \A t \in 1..Len(cg.st.trace) :
            LET e  == cg.st.trace[t]
                v  == e.node
                targets == {Resolved(v, x) : x \in LookedUp(g[v].attr.expr)}
            IN  (g[v].kind = "IndexLambda" /\ ~e.hit) =>
                    /\ e.ret.t = "inlined"
                    /\ \A u \in targets : \E j \in 1..(t - 1) : cg.st.trace[j].node = u
                    /\ e.ret.deps = UNION {cg.st.results[u].deps : u \in targets}
                    /\ (\A u \in targets : g[u].kind \in LeafKinds) =>
                          e.ret.expr = Fetched(v, g[v].attr.expr)

\* An IndexLambda that binds the name of an input to a second IndexLambda
\* was lowered, and the second, lowered on its behalf, names that input.
C17_Witness ==
    /\ pc = "done"
    /\ \E v \in DOMAIN cg.st.results : \E u \in DOMAIN cg.st.results :
          /\ g[v].kind = "IndexLambda" /\ g[u].kind = "IndexLambda"
          /\ g[v].kids = <<u>> /\ g[u].kids = <<>>
          /\ g[v].attr.bnames[1] \in Namespace(g)
          /\ LookedUp(g[u].attr.expr) = {g[v].attr.bnames[1]}
          /\ cg.st.results[u].expr.t = "op"
          /\ outs[1] = v
          /\ \E t \in 2..Len(cg.st.trace) :
                /\ cg.st.trace[t].node = v /\ ~cg.st.trace[t].hit
                /\ cg.st.trace[t - 1].node = u /\ ~cg.st.trace[t - 1].hit
\* --------------------------------------------- C18: the kernel only grows

IsPrefix(s, t) == Len(s) <= Len(t) /\ SubSeq(t, 1, Len(s)) = s

\* Kernel k2 has every argument, temporary, domain and instruction of k1.
Extends(k2, k1) ==
    /\ IsPrefix(k1.args, k2.args)
    /\ IsPrefix(k1.domains, k2.domains)
    /\ IsPrefix(k1.insns, k2.insns)
    /\ \A i \in 1..Len(k1.temps) : \E j \in 1..Len(k2.temps) : k2.temps[j] = k1.temps[i]

\* The kernels a lowering call has held: at the return of every rule, and
\* now.
KernelsHeld == [t \in 1..Len(cg.st.trace) |-> cg.st.trace[t].kernel] \o <<cg.st.kernel>>

\* C18: the kernel at the return of a rule has everything the kernel had
\* at the return of every earlier rule, and the kernel now has everything
\* of all of them; a rule that ran after its children were lowered and
\* that changed the kernel returns a kernel that has what the last of its
\* children left and more.
C18_KernelGrows ==
    pc \in {"namespace", "outputs", "done"} =>
        /\ \A i, j \in 1..Len(KernelsHeld) :
              i <= j => Extends(KernelsHeld[j], KernelsHeld[i])
        /\ \A t \in 2..Len(cg.st.trace) :
              LET e == cg.st.trace[t]
                  c == cg.st.trace[t - 1]
              IN  (~e.hit /\ g[e.node].kind \in {"Placeholder", "DataWrapper",
                                                    "Stack", "MatrixProduct"}
                          /\ c.node \in CgReach(g, e.node) \ {e.node}) =>
                      /\ Extends(e.kernel, c.kernel)
                      /\ e.kernel # c.kernel

\* A Stack of an array that is itself stored in a temporary was lowered
\* and then stored as the output: three kernels, each with more
\* instructions than the one before.
C18_Witness ==
    /\ pc = "done"
    /\ \E t \in 2..Len(cg.st.trace) :
          LET e == cg.st.trace[t]
              c == cg.st.trace[t - 1]
          IN  /\ ~e.hit /\ g[e.node].kind = "Stack"
              /\ c.node \in Range(g[e.node].kids)
              /\ c.kernel.insns # <<>> /\ c.kernel.temps # <<>>
              /\ Len(e.kernel.insns) > Len(c.kernel.insns)
              /\ Len(e.kernel.temps) > Len(c.kernel.temps)
              /\ Len(cg.st.kernel.insns) > Len(e.kernel.insns)
\* ------------------------------------ C19: reduction names never collide

\* The context map_matrix_product of node v starts from.
ProductContext(v) ==
    [NewContext(<<>>) EXCEPT !.reds = <<Bound("_r0", Num(0), g[g[v].kids[2]].shape[1])>>]

\* The contexts left by converting one of the results into one of the
\* contexts.
ContextsTaken(results, contexts) ==
    {ToLoopy(res, PositionalIndices(2), c).ctx : res \in results, c \in contexts}

\* InlinedResult.from_loopy_expression on a context that holds reductions.
Transient(contexts) ==
    {Inlined(Num(0), c.reds, c.deps) : c \in {d \in contexts : d.reds # <<>>}}

\* The contexts to_loopy_expression may be invoked with: a rule starts
\* from a new context, or from map_matrix_product's, and converts up to
\* two memoized results into it; add_store converts the result built
\* from such a context into a new one.
ContextsHeld ==
    LET memo == {cg.st.results[v] : v \in DOMAIN cg.st.results}
        stored(all) == all \cup ContextsTaken(Transient(all), {NewContext(<<>>)})
        twice(a, b) == stored(a \cup b \cup ContextsTaken(memo, b))
        once(a) == twice(a, ContextsTaken(memo, a))
    IN  once({NewContext(<<>>)}
             \cup {ProductContext(v) : v \in {u \in DOMAIN cg.st.results :
                                                  g[u].kind = "MatrixProduct"}})

\* C19: no lowering call fails on the assertion of
\* InlinedResult.to_loopy_expression; every context a result is converted
\* into holds, for some n, exactly the reductions _r0 .. _r(n-1), and has
\* not failed; every Inlined result of the memo has no reductions.
C19_NoCollision ==
    pc \in {"namespace", "outputs", "done", "failed"} =>
        /\ cg.st.err # [type |-> "AssertionError", what |-> "reduction name collision"]
        /\ \A v \in DOMAIN cg.st.results :
              cg.st.results[v].t = "inlined" => cg.st.results[v].reds = <<>>
        /\ \A c \in ContextsHeld :
              /\ c.err = NoErr
              /\ RedNames(c.reds) = {"_r" \o ToString(k) : k \in 0..(Len(c.reds) - 1)}
              /\ \A i, j \in 1..Len(c.reds) : c.reds[i].name = c.reds[j].name => i = j

\* The product of an Inlined operand and another was lowered: the operand
\* was converted into the context that holds _r0, and the sum over _r0
\* into the new context of the store.
C19_Witness ==
    /\ pc = "done"
    /\ \E v \in DOMAIN cg.st.results :
          /\ g[v].kind = "MatrixProduct"
          /\ cg.st.results[g[v].kids[1]].t = "inlined"
          /\ \E c \in ContextsHeld : Len(c.reds) = 1 /\ c.deps # {}
          /\ \E i \in StoresTo(cg.st.kernel, cg.st.results[v].name) :
                cg.st.kernel.insns[i].expr.t = "red"
\* ------------------------------------- C20: dependencies point backwards

\* In kernel k the ids are pairwise distinct and every instruction depends
\* only on instructions placed before it.
WellOrdered(k) ==
    /\ \A i, j \in 1..Len(k.insns) : k.insns[i].id = k.insns[j].id => i = j
    /\ \A i \in 1..Len(k.insns) :
          \A d \in k.insns[i].depends_on :
              \E j \in 1..(i - 1) : k.insns[j].id = d

IdsOf(k) == {k.insns[i].id : i \in 1..Len(k.insns)}

\* C20: in the kernel at the return of every rule, and in the kernel now,
\* the instruction ids are pairwise distinct and every id an instruction
\* depends on is the id of an instruction before it in the list; the
\* result a rule returns depends only on instructions of the kernel at its
\* return, and so does every result of the memo on the kernel now.
C20_DependsOnEarlier ==
    pc \in {"namespace", "outputs", "done"} =>
        /\ WellOrdered(cg.st.kernel)
        /\ \A t \in 1..Len(cg.st.trace) :
              /\ WellOrdered(cg.st.trace[t].kernel)
              /\ cg.st.trace[t].ret.deps \subseteq IdsOf(cg.st.trace[t].kernel)
        /\ \A v \in DOMAIN cg.st.results :
              cg.st.results[v].deps \subseteq IdsOf(cg.st.kernel)

\* The kernel has an instruction that depends on two earlier ones, one of
\* which depends on an earlier one itself.
C20_Witness ==
    /\ pc = "done"
    /\ \E i \in 1..Len(cg.st.kernel.insns) :
          /\ Cardinality(cg.st.kernel.insns[i].depends_on) = 2
          /\ \E j \in 1..(i - 1) :
                /\ cg.st.kernel.insns[j].id \in cg.st.kernel.insns[i].depends_on
                /\ cg.st.kernel.insns[j].depends_on # {}
    /\ \E v \in DOMAIN cg.st.results : cg.st.results[v].deps # {}
\* ------------------------------------ C21: the extra arguments of a walk

\* C21: in a finished walk, every call of visit and of post_visit, on the
\* root and on every node the walk recursed into, was made with exactly
\* the extra arguments the walk was started with.
C21_ExtraArguments ==
    pc = "done" =>
        \A i \in 1..Len(wm.log) : wm.log[i].args = wm.args
====
